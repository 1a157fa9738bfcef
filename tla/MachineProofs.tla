--------------------------- MODULE MachineProofs ---------------------------
(***************************************************************************)
(* What holds of every program in every round of the processor's loop:     *)
(* types, the program that is not rewritten, and the account of the stack. *)
(***************************************************************************)
EXTENDS MachineProperties, SymbolTableProofs, WordProofs

-----------------------------------------------------------------------------
(* Registers and instructions.                                             *)

LEMMA RegisterNames ==
    /\ {0, 1, PC, LR, SP, PSW} \subseteq RegisterFile
    /\ SP \notin {0, 1, PC, LR, PSW} /\ PSW # PC /\ LR # PC
BY DEF RegisterFile, PC, LR, SP, PSW

LEMMA InstructionFields ==
    ASSUME NEW i \in Instructions
    PROVE  /\ i.opcode \in Opcodes /\ i.dst \in RegisterFile /\ i.src \in RegisterFile
           /\ i.imm \in Int /\ (i.opcode = "mov" => i.imm \in Shifts)
           /\ {i.direct, i.ls, i.io, i.lr, i.hl, i.cf} \subseteq {0, 1}
BY DEF Instructions

LEMMA WordTypes ==
    ASSUME NEW word \in MemoryWords
    PROVE  /\ word.type = "number" => word.number \in Words
           /\ word.type = "code" => word.instruction \in Instructions
BY DEF MemoryWords

LEMMA NumberIsWord ==
    ASSUME NEW n \in Words
    PROVE  Number(n) \in MemoryWords /\ Number(n).type = "number" /\ Number(n).number = n
BY DEF Number, MemoryWords

-----------------------------------------------------------------------------
(* Stores.                                                                 *)

Stores(D) == [registers: [RegisterFile -> Words], memory: [D -> MemoryWords]]

LEMMA SetStore ==
    ASSUME NEW D, NEW m \in Stores(D), NEW r \in RegisterFile, NEW v \in Int
    PROVE  /\ Set(m, r, v) \in Stores(D)
           /\ Set(m, r, v).memory = m.memory
           /\ Set(m, r, v).registers[r] = Signed(v)
           /\ \A q \in RegisterFile \ {r} : Set(m, r, v).registers[q] = m.registers[q]
<1>1. Signed(v) \in Words
  BY SignedFacts
<1>. QED
  BY <1>1 DEF Set, Stores

LEMMA WriteStore ==
    ASSUME NEW D, NEW m \in Stores(D), NEW a \in D, NEW n \in Words
    PROVE  LET w == [m EXCEPT !.memory[a] = Number(n)]
           IN  /\ w \in Stores(D)
               /\ w.registers = m.registers
               /\ w.memory[a] = Number(n)
               /\ \A b \in D \ {a} : w.memory[b] = m.memory[b]
<1>1. Number(n) \in MemoryWords
  BY NumberIsWord
<1>. QED
  BY <1>1 DEF Stores

LEMMA StackMoves ==
    ASSUME NEW v \in 0 .. Modulus \div 2 - 1 - WordBytes
    PROVE  /\ v \in Int
           /\ v + WordBytes \in Words /\ Signed(v + WordBytes) = v + WordBytes
           /\ v - WordBytes \in Words /\ Signed(v - WordBytes) = v - WordBytes
<1>1. Modulus \in Nat /\ 2 * (Modulus \div 2) = Modulus /\ Modulus >= 16
  <2>1. Half \in Nat /\ Half >= 4
    BY HalfAssumption
  <2>2. Half * Half >= 4 * Half
    BY <2>1
  <2>. QED
    BY <2>1, <2>2, ModulusIsEven DEF Modulus
<1>. HIDE DEF Modulus
<1>2. v + WordBytes \in Words /\ v - WordBytes \in Words
  BY <1>1 DEF Words, WordBytes
<1>. QED
  BY <1>1, <1>2, WordsAreSigned

LEMMA PushStore ==
    ASSUME NEW D, D \subseteq 0 .. Modulus \div 2 - 1 - WordBytes,
           NEW m \in Stores(D), m.registers[SP] \in D
    PROVE  /\ Push(m) \in Stores(D)
           /\ Push(m).registers[SP] = m.registers[SP] + WordBytes
           /\ \A q \in RegisterFile \ {SP} : Push(m).registers[q] = m.registers[q]
           /\ Push(m).memory[m.registers[SP]] = Number(m.registers[PSW])
           /\ \A b \in D \ {m.registers[SP]} : Push(m).memory[b] = m.memory[b]
<1>. DEFINE s == m.registers[SP]
            w == [m EXCEPT !.memory[s] = Number(m.registers[PSW])]
<1>1. m.registers[PSW] \in Words /\ SP \in RegisterFile
  BY RegisterNames DEF Stores
<1>2. w \in Stores(D) /\ w.registers = m.registers /\ w.memory[s] = Number(m.registers[PSW])
      /\ \A b \in D \ {s} : w.memory[b] = m.memory[b]
  BY <1>1, WriteStore
<1>3. s + WordBytes \in Words /\ Signed(s + WordBytes) = s + WordBytes /\ s \in Int
  BY StackMoves
<1>4. Push(m) = Set(w, SP, s + WordBytes)
  BY <1>1, <1>2 DEF Push, Set, Stores
<1>5. s + WordBytes \in Int
  BY <1>3 DEF WordBytes
<1>. HIDE DEF w
<1>6. /\ Push(m) \in Stores(D)
      /\ Push(m).memory = w.memory
      /\ Push(m).registers[SP] = Signed(s + WordBytes)
      /\ \A q \in RegisterFile \ {SP} : Push(m).registers[q] = w.registers[q]
  BY <1>1, <1>2, <1>4, <1>5, SetStore
<1>. QED
  BY <1>2, <1>3, <1>6

-----------------------------------------------------------------------------
(* Sound stores: what they hold was loaded or is a number, and the stack   *)
(* pointer accounts for the routines entered and for the returns that had  *)
(* none.                                                                   *)

Bottom(loaded, returns) == StackStart(loaded) - WordBytes * returns

SoundStore(loaded, m, returns, depth) ==
    /\ m \in Stores(DOMAIN loaded.memory)
    /\ \A a \in DOMAIN loaded.memory :
          m.memory[a] = loaded.memory[a] \/ m.memory[a].type = "number"
    /\ Balanced(loaded) =>
          /\ m.registers[SP] = Bottom(loaded, returns) + WordBytes * depth
          /\ \A a \in DOMAIN loaded.memory :
                a < Bottom(loaded, returns) => m.memory[a] = loaded.memory[a]

LEMMA LoadedFacts ==
    ASSUME NEW loaded \in Images
    PROVE  /\ DOMAIN loaded.memory \subseteq 0 .. Modulus \div 2 - 1 - WordBytes
           /\ DOMAIN loaded.memory \subseteq Int
           /\ StackStart(loaded) \in Int
<1>1. DOMAIN loaded.memory \subseteq 0 .. Modulus \div 2 - 1 - WordBytes
  BY ImagesAssumption
<1>2. StackStart(loaded) \in Words
  BY ImagesAssumption
<1>. QED
  BY <1>1, <1>2, StackMoves, WordsAreSigned

\* A register other than the stack pointer may get any value.
LEMMA SetSound ==
    ASSUME NEW loaded \in Images, NEW m, NEW returns \in Nat, NEW depth \in Nat,
           SoundStore(loaded, m, returns, depth), NEW r \in RegisterFile, NEW v \in Int,
           Balanced(loaded) => r # SP
    PROVE  SoundStore(loaded, Set(m, r, v), returns, depth)
<1>. DEFINE D == DOMAIN loaded.memory
            n == Set(m, r, v)
<1>1. m \in Stores(D)
  BY DEF SoundStore
<1>2. n \in Stores(D) /\ n.memory = m.memory
      /\ \A q \in RegisterFile \ {r} : n.registers[q] = m.registers[q]
  BY <1>1, SetStore
<1>3. Balanced(loaded) => n.registers[SP] = m.registers[SP]
  BY <1>2, RegisterNames
<1>. HIDE DEF n
<1>. QED
  BY <1>2, <1>3 DEF SoundStore, n

LEMMA PushSound ==
    ASSUME NEW loaded \in Images, NEW m, NEW returns \in Nat, NEW depth \in Nat,
           SoundStore(loaded, m, returns, depth), m.registers[SP] \in DOMAIN loaded.memory
    PROVE  SoundStore(loaded, Push(m), returns, depth + 1)
<1>. DEFINE D == DOMAIN loaded.memory
            n == Push(m)
            s == m.registers[SP]
            low == Bottom(loaded, returns)
<1>1. m \in Stores(D) /\ s \in D /\ D \subseteq Int
  BY LoadedFacts DEF SoundStore
<1>2. /\ n \in Stores(D)
      /\ n.registers[SP] = s + WordBytes
      /\ n.memory[s] = Number(m.registers[PSW])
      /\ \A b \in D \ {s} : n.memory[b] = m.memory[b]
  BY <1>1, PushStore, LoadedFacts
<1>3. n.memory[s].type = "number"
  BY <1>2 DEF Number
<1>4. low \in Int
  <2>1. StackStart(loaded) \in Int
    BY LoadedFacts
  <2>. QED
    BY <2>1 DEF Bottom, WordBytes
<1>5. \A a \in D : n.memory[a] = loaded.memory[a] \/ n.memory[a].type = "number"
  BY <1>2, <1>3 DEF SoundStore
<1>6. ASSUME Balanced(loaded)
      PROVE  /\ n.registers[SP] = low + WordBytes * (depth + 1)
             /\ \A a \in D : a < low => n.memory[a] = loaded.memory[a]
  <2>1. s = low + WordBytes * depth /\ \A a \in D : a < low => m.memory[a] = loaded.memory[a]
    BY <1>6 DEF SoundStore
  <2>. HIDE DEF n, s, low
  <2>2. s >= low
    BY <1>4, <2>1 DEF WordBytes
  <2>3. n.registers[SP] = low + WordBytes * (depth + 1)
    BY <1>2, <1>4, <2>1 DEF WordBytes
  <2>4. ASSUME NEW a \in D, a < low PROVE n.memory[a] = loaded.memory[a]
    <3>1. a # s
      BY <1>1, <1>4, <2>2, <2>4
    <3>. QED
      BY <1>2, <2>1, <2>4, <3>1
  <2>. QED
    BY <2>3, <2>4
<1>. QED
  BY <1>2, <1>5, <1>6 DEF SoundStore

\* A return takes a word off the stack, or off what is below it.
LEMMA PopSound ==
    ASSUME NEW loaded \in Images, NEW m, NEW returns \in Nat, NEW depth \in Nat,
           SoundStore(loaded, m, returns, depth), m.registers[SP] \in DOMAIN loaded.memory
    PROVE  LET n == Set(m, SP, m.registers[SP] - WordBytes)
           IN  IF depth = 0 THEN SoundStore(loaded, n, returns + 1, 0)
               ELSE SoundStore(loaded, n, returns, depth - 1)
<1>. DEFINE D == DOMAIN loaded.memory
            s == m.registers[SP]
            n == Set(m, SP, s - WordBytes)
            low == Bottom(loaded, returns)
<1>1. m \in Stores(D) /\ s \in 0 .. Modulus \div 2 - 1 - WordBytes /\ D \subseteq Int
  BY LoadedFacts DEF SoundStore
<1>2. s - WordBytes \in Int /\ Signed(s - WordBytes) = s - WordBytes /\ s \in Int
  BY <1>1, StackMoves DEF WordBytes
<1>3. n \in Stores(D) /\ n.memory = m.memory /\ n.registers[SP] = s - WordBytes
  <2>1. SP \in RegisterFile
    BY RegisterNames
  <2>2. m \in Stores(D) /\ s - WordBytes \in Int
    BY <1>1, <1>2
  <2>. HIDE DEF s, D
  <2>3. Set(m, SP, s - WordBytes) \in Stores(D)
    BY <2>1, <2>2, SetStore
  <2>4. Set(m, SP, s - WordBytes).memory = m.memory
    BY <2>1, <2>2, SetStore
  <2>5. Set(m, SP, s - WordBytes).registers[SP] = Signed(s - WordBytes)
    BY <2>1, <2>2, SetStore
  <2>. QED
    BY <1>2, <2>3, <2>4, <2>5
<1>4. StackStart(loaded) \in Int
  BY LoadedFacts
<1>5. low \in Int /\ Bottom(loaded, returns + 1) = low - WordBytes
  BY <1>4 DEF Bottom, WordBytes
<1>6. \A a \in D : n.memory[a] = loaded.memory[a] \/ n.memory[a].type = "number"
  BY <1>3 DEF SoundStore
<1>7. ASSUME Balanced(loaded)
      PROVE  s = low + WordBytes * depth /\ \A a \in D : a < low => n.memory[a] = loaded.memory[a]
  BY <1>3, <1>7 DEF SoundStore
<1>. HIDE DEF n, s, low
<1>8. ASSUME depth = 0 PROVE SoundStore(loaded, n, returns + 1, 0)
  <2>1. ASSUME Balanced(loaded)
        PROVE  /\ n.registers[SP] = (low - WordBytes) + WordBytes * 0
               /\ \A a \in D : a < low - WordBytes => n.memory[a] = loaded.memory[a]
    BY <1>1, <1>3, <1>5, <1>7, <1>8, <2>1 DEF WordBytes
  <2>. QED
    BY <1>3, <1>5, <1>6, <2>1 DEF SoundStore
<1>9. ASSUME depth # 0 PROVE SoundStore(loaded, n, returns, depth - 1)
  <2>1. ASSUME Balanced(loaded)
        PROVE  n.registers[SP] = low + WordBytes * (depth - 1)
    BY <1>3, <1>5, <1>7, <1>9, <2>1 DEF WordBytes
  <2>. QED
    BY <1>3, <1>6, <1>7, <2>1 DEF SoundStore, low
<1>. QED
  BY <1>8, <1>9 DEF n, s

-----------------------------------------------------------------------------
(* The invariant, and what a round begins with.                            *)

Held == [registers |-> registers, memory |-> memory]
Frames == [psw: Words, saved: BOOLEAN]

MachineInv ==
    /\ TypeOK
    /\ image \in Images
    /\ SoundStore(image, Held, unmatched, Len(entered))

\* The invariant follows for a round that leaves a sound store.
LEMMA RoundKeeps ==
    ASSUME image' \in Images, entered' \in Seq(Frames), unmatched' \in Nat,
           NEW m, registers' = m.registers, memory' = m.memory,
           SoundStore(image', m, unmatched', Len(entered')),
           io_memory' \in [0 .. IoSize - 1 -> Words],
           evaluated_logic' \in {-1, 0, 1, NoCondition},
           stage' \in {"run", "ended", "crashed", "wild"},
           ticks' \in 0 .. MaxTicks, disturbed' \in BOOLEAN,
           returned' \in {<< >>} \cup (Words \X Words)
    PROVE  MachineInv'
<1>1. m \in Stores(DOMAIN image'.memory)
  BY DEF SoundStore
<1>2. registers' \in [RegisterFile -> Words] /\ memory' \in [DOMAIN image'.memory -> MemoryWords]
  BY <1>1 DEF Stores
<1>3. Held' = m
  BY <1>1 DEF Held, Stores
<1>4. TypeOK'
  BY <1>2 DEF TypeOK, Frames
<1>. QED
  BY <1>3, <1>4 DEF MachineInv

LEMMA HeldFacts ==
    ASSUME MachineInv
    PROVE  /\ Held \in Stores(DOMAIN image.memory)
           /\ Held.registers = registers /\ Held.memory = memory
           /\ DOMAIN memory = DOMAIN image.memory
           /\ Handler \in Words
<1>1. Held \in Stores(DOMAIN image.memory) /\ Held.registers = registers /\ Held.memory = memory
  BY DEF MachineInv, SoundStore, Held
<1>2. DOMAIN memory = DOMAIN image.memory
  BY DEF MachineInv, TypeOK
<1>3. TimerVector \in DOMAIN image.memory /\ image.memory[TimerVector].type = "number"
  BY ImagesAssumption DEF MachineInv
<1>4. memory[TimerVector] \in MemoryWords /\ memory[TimerVector].type = "number"
  BY <1>1, <1>3 DEF MachineInv, SoundStore, TypeOK
<1>. QED
  BY <1>1, <1>2, <1>4, WordTypes DEF Handler

\* An instruction that is fetched was loaded.
LEMMA FetchedFacts ==
    ASSUME MachineInv, Fetches
    PROVE  /\ Fetched \in Instructions
           /\ Balanced(image) =>
                /\ Fetched.opcode = "call" => Fetched.cf = 0
                /\ Fetched.opcode = "ldst" => Fetched.ls = 1 /\ Fetched.src # SP
                /\ Fetched.opcode \notin {"int", "call"} => Fetched.dst # SP
<1>. DEFINE a == registers[PC]
<1>1. a \in DOMAIN image.memory /\ memory[a].type = "code"
  BY HeldFacts DEF Fetches
<1>2. memory[a] \in MemoryWords
  BY <1>1 DEF MachineInv, TypeOK
<1>3. Fetched \in Instructions
  BY <1>1, <1>2, WordTypes DEF Fetched
<1>4. memory[a] = image.memory[a]
  BY <1>1, HeldFacts DEF MachineInv, SoundStore
<1>5. Fetched \in InstructionsOf(image)
  BY <1>1, <1>4 DEF InstructionsOf, Fetched
<1>. QED
  BY <1>3, <1>5 DEF Balanced

LEMMA AdvancedSound ==
    ASSUME MachineInv
    PROVE  /\ SoundStore(image, Advanced, unmatched, Len(entered))
           /\ Advanced.registers[SP] = registers[SP]
           /\ Advanced.registers[PC] \in Int
<1>1. registers[PC] + InstructionBytes \in Int
  <2>1. registers[PC] \in Words
    BY RegisterNames DEF MachineInv, TypeOK
  <2>. QED
    BY <2>1, WordsAreSigned DEF InstructionBytes
<1>2. PC \in RegisterFile /\ PC # SP /\ SP \in RegisterFile
  BY RegisterNames
<1>3. Advanced = Set(Held, PC, registers[PC] + InstructionBytes)
  BY DEF Advanced, Held
<1>4. image \in Images /\ unmatched \in Nat /\ Len(entered) \in Nat
      /\ SoundStore(image, Held, unmatched, Len(entered))
  BY DEF MachineInv, TypeOK
<1>5. SoundStore(image, Advanced, unmatched, Len(entered))
  BY <1>1, <1>2, <1>3, <1>4, SetSound
<1>6. Advanced.registers[SP] = registers[SP] /\ Advanced.registers[PC] = Signed(registers[PC] + InstructionBytes)
  BY <1>1, <1>2, <1>3, HeldFacts, SetStore
<1>7. Advanced.registers[PC] \in Int
  BY <1>1, <1>6, SignedFacts
<1>. QED
  BY <1>5, <1>6, <1>7

LEMMA AppendTyped ==
    ASSUME NEW T, NEW t \in Seq(T), NEW e \in T
    PROVE  Append(t, e) \in Seq(T) /\ Len(Append(t, e)) = Len(t) + 1
OBVIOUS

\* Whatever the clock does, the operation that follows finds a sound store.
LEMMA InterruptedSound ==
    ASSUME MachineInv, NEW tick \in BOOLEAN, CanTick(tick)
    PROVE  /\ EnteredBy(tick) \in Seq(Frames)
           /\ SoundStore(image, Interrupted(tick), unmatched, Len(EnteredBy(tick)))
<1>1. image \in Images /\ unmatched \in Nat /\ Len(entered) \in Nat /\ entered \in Seq(Frames)
      /\ registers \in [RegisterFile -> Words]
  BY DEF MachineInv, TypeOK, Frames
<1>2. {1, PC, LR, SP, PSW} \subseteq RegisterFile /\ SP \notin {1, PC, LR}
  BY RegisterNames
<1>3. CASE Handled(tick)
  <2>1. registers[SP] \in DOMAIN image.memory
    BY <1>3, HeldFacts DEF CanTick
  <2>2. SoundStore(image, Push(Advanced), unmatched, Len(entered) + 1)
    BY <1>1, <2>1, AdvancedSound, PushSound
  <2>3. SoundStore(image, Set(Push(Advanced), LR, Advanced.registers[PC]), unmatched, Len(entered) + 1)
    BY <1>1, <1>2, <2>2, AdvancedSound, SetSound
  <2>4. Handler \in Int
    BY HeldFacts, WordsAreSigned
  <2>5. SoundStore(image, Interrupted(tick), unmatched, Len(entered) + 1)
    <3>1. Interrupted(tick) = Set(Set(Push(Advanced), LR, Advanced.registers[PC]), PC, Handler)
      BY <1>3 DEF Interrupted
    <3>. QED
      BY <1>1, <1>2, <2>3, <2>4, <3>1, SetSound
  <2>. DEFINE frame == Routine(registers[PSW], TRUE)
  <2>6. frame \in Frames
    BY <1>1, <1>2 DEF Routine, Frames
  <2>7. EnteredBy(tick) \in Seq(Frames) /\ Len(EnteredBy(tick)) = Len(entered) + 1
    <3>1. EnteredBy(tick) = Append(entered, frame)
      BY <1>3 DEF EnteredBy
    <3>. HIDE DEF frame
    <3>. QED
      BY <1>1, <2>6, <3>1, AppendTyped
  <2>. QED
    BY <2>5, <2>7
<1>4. CASE ~Handled(tick)
  <2>1. EnteredBy(tick) = entered
    BY <1>4 DEF EnteredBy
  <2>2. CASE tick
    <3>1. Interrupted(tick) = Set(Advanced, 1, registers[1] + 1)
      BY <1>4, <2>2 DEF Interrupted
    <3>2. registers[1] + 1 \in Int
      BY <1>1, <1>2, WordsAreSigned
    <3>. QED
      BY <1>1, <1>2, <2>1, <3>1, <3>2, AdvancedSound, SetSound
  <2>3. CASE ~tick
    <3>1. Interrupted(tick) = Advanced
      BY <1>4, <2>3 DEF Interrupted
    <3>. QED
      BY <1>1, <2>1, <3>1, AdvancedSound
  <2>. QED
    BY <2>2, <2>3
<1>. QED
  BY <1>3, <1>4

-----------------------------------------------------------------------------
(* What the operations compute is a number.                                *)

\* The first numbers of g are the powers of two.
Doubling(n, g) == \A k \in 0 .. n : g[k] = IF k = 0 THEN 1 ELSE 2 * g[k - 1]

LEMMA PowersAreNumbers == \A n \in Shifts : PowerOfTwo[n] \in Nat \ {0}
<1>. DEFINE Start == {n \in Nat : \E g \in [0 .. n -> Nat \ {0}] : Doubling(n, g)}
<1>1. 0 \in Start
  <2>. DEFINE g == [k \in 0 .. 0 |-> 1]
  <2>1. g \in [0 .. 0 -> Nat \ {0}] /\ Doubling(0, g)
    BY DEF Doubling
  <2>. QED
    BY <2>1
<1>2. ASSUME NEW n \in 1 .. 31, n - 1 \in Start PROVE n \in Start
  <2>1. PICK g \in [0 .. n - 1 -> Nat \ {0}] : Doubling(n - 1, g)
    BY <1>2
  <2>. DEFINE h == [k \in 0 .. n |-> IF k = n THEN 2 * g[n - 1] ELSE g[k]]
  <2>2. n - 1 \in 0 .. n - 1 /\ 2 * g[n - 1] \in Nat \ {0}
    BY <2>1
  <2>3. h \in [0 .. n -> Nat \ {0}]
    BY <2>1, <2>2
  <2>4. ASSUME NEW k \in 0 .. n PROVE h[k] = IF k = 0 THEN 1 ELSE 2 * h[k - 1]
    <3>1. CASE k = n
      <4>1. h[n] = 2 * g[n - 1] /\ h[n - 1] = g[n - 1]
        OBVIOUS
      <4>. QED
        BY <3>1, <4>1
    <3>2. CASE k # n
      <4>1. k \in 0 .. n - 1 /\ h[k] = g[k] /\ (k # 0 => h[k - 1] = g[k - 1])
        BY <3>2
      <4>. QED
        BY <2>1, <4>1 DEF Doubling
    <3>. QED
      BY <3>1, <3>2
  <2>5. Doubling(n, h)
    BY <2>4 DEF Doubling
  <2>. QED
    BY <2>3, <2>5
<1>3. 31 \in Start
  <2>. HIDE DEF Start
  <2>1. \A n \in 0 .. 31 : n \in Start
    BY <1>1, <1>2, UpTo
  <2>. QED
    BY <2>1
<1>4. PICK g \in [0 .. 31 -> Nat \ {0}] : Doubling(31, g)
  BY <1>3
<1>5. g = [n \in 0 .. 31 |-> IF n = 0 THEN 1 ELSE 2 * g[n - 1]]
  BY <1>4 DEF Doubling
<1>6. PowerOfTwo = [n \in 0 .. 31 |-> IF n = 0 THEN 1 ELSE 2 * PowerOfTwo[n - 1]]
  BY <1>5 DEF PowerOfTwo, Shifts
<1>. DEFINE Good == {n \in Nat : PowerOfTwo[n] \in Nat \ {0}}
<1>7. \A n \in 0 .. 31 : n \in Good
  <2>1. 0 \in Good
    BY <1>6
  <2>2. \A n \in 1 .. 31 : n - 1 \in Good => n \in Good
    BY <1>6
  <2>. HIDE DEF Good
  <2>. QED
    BY <2>1, <2>2, UpTo
<1>. QED
  BY <1>7 DEF Shifts

\* The weights of a word's bits are all below its number of values.
LEMMA BitAndIsNumber ==
    ASSUME NEW a \in Nat, NEW b \in Nat
    PROVE  BitAnd(a, b) \in Nat
<1>. DEFINE Common(weight) == weight * (((a \div weight) % 2) * ((b \div weight) % 2))
            M == Modulus - 1
            Adds(n, f) == \A w \in 0 .. n : f[w] = IF w = 0 THEN 0 ELSE f[w \div 2] + Common(w)
            Start == {n \in Nat : \E f \in [0 .. n -> Nat] : Adds(n, f)}
<1>0. M \in Nat /\ Modulus \div 2 \in 0 .. M
  BY ModulusIsEven
<1>1. ASSUME NEW w \in Nat \ {0} PROVE Common(w) \in Nat
  <2>1. (a \div w) % 2 \in {0, 1} /\ (b \div w) % 2 \in {0, 1}
    <3>1. a \div w \in Int /\ b \div w \in Int
      OBVIOUS
    <3>. QED
      BY <3>1
  <2>. QED
    BY <2>1
<1>2. 0 \in Start
  <2>. DEFINE f == [w \in 0 .. 0 |-> 0]
  <2>1. f \in [0 .. 0 -> Nat] /\ Adds(0, f)
    OBVIOUS
  <2>. QED
    BY <2>1
<1>. HIDE DEF Common
<1>3. ASSUME NEW n \in 1 .. M, n - 1 \in Start PROVE n \in Start
  <2>1. PICK f \in [0 .. n - 1 -> Nat] : Adds(n - 1, f)
    BY <1>3
  <2>. DEFINE g == [w \in 0 .. n |-> IF w = n THEN f[n \div 2] + Common(n) ELSE f[w]]
  <2>2. n \in Nat \ {0} /\ n \div 2 \in 0 .. n - 1
    BY <1>0
  <2>3. g \in [0 .. n -> Nat]
    BY <1>1, <2>1, <2>2
  <2>4. ASSUME NEW w \in 0 .. n PROVE g[w] = IF w = 0 THEN 0 ELSE g[w \div 2] + Common(w)
    <3>1. CASE w = n
      <4>1. g[n] = f[n \div 2] + Common(n) /\ g[n \div 2] = f[n \div 2]
        BY <2>2
      <4>. QED
        BY <2>2, <3>1, <4>1
    <3>2. CASE w # n
      <4>1. w \in 0 .. n - 1 /\ g[w] = f[w]
        BY <2>2, <3>2
      <4>2. w # 0 => w \div 2 \in 0 .. n - 1 /\ g[w \div 2] = f[w \div 2]
        BY <2>2, <4>1
      <4>3. f[w] = IF w = 0 THEN 0 ELSE f[w \div 2] + Common(w)
        BY <2>1, <4>1
      <4>. HIDE DEF g
      <4>. QED
        BY <4>1, <4>2, <4>3
    <3>. QED
      BY <3>1, <3>2
  <2>5. Adds(n, g)
    BY <2>4
  <2>. QED
    BY <2>2, <2>3, <2>5
<1>4. PICK f \in [0 .. M -> Nat] : Adds(M, f)
  <2>2. M \in 0 .. M
    BY <1>0
  <2>. HIDE DEF Start, M
  <2>3. \A n \in 0 .. M : n \in Start
    BY <1>2, <1>3, <1>0, UpTo
  <2>4. M \in Start
    BY <2>2, <2>3
  <2>. QED
    BY <2>4 DEF Start
<1>. DEFINE from == CHOOSE h : h = [w \in 0 .. M |-> IF w = 0 THEN 0 ELSE h[w \div 2] + Common(w)]
<1>5. f = [w \in 0 .. M |-> IF w = 0 THEN 0 ELSE f[w \div 2] + Common(w)]
  BY <1>4
<1>6. from = [w \in 0 .. M |-> IF w = 0 THEN 0 ELSE from[w \div 2] + Common(w)]
  <2>. HIDE DEF M
  <2>. QED
    BY <1>5, Zenon
<1>7. BitAnd(a, b) = from[Modulus \div 2]
  BY DEF BitAnd, Common
<1>. HIDE DEF from
<1>. DEFINE Small == {n \in Nat : \A w \in 0 .. n : from[w] \in Nat}
<1>8. 0 \in Small
  BY <1>0, <1>6
<1>9. ASSUME NEW n \in 1 .. M, n - 1 \in Small PROVE n \in Small
  <2>1. n \in Nat \ {0} /\ n \div 2 \in 0 .. n - 1
    BY <1>0
  <2>2. \A w \in 0 .. n - 1 : from[w] \in Nat
    BY <1>9
  <2>3. from[n] = from[n \div 2] + Common(n)
    <3>1. n \in 0 .. M
      BY <1>0
    <3>. QED
      BY <1>6, <2>1, <3>1
  <2>4. from[n] \in Nat
    BY <1>1, <2>1, <2>2, <2>3
  <2>5. \A w \in 0 .. n : w = n \/ w \in 0 .. n - 1
    BY <2>1
  <2>. QED
    BY <2>1, <2>2, <2>4, <2>5
<1>10. \A n \in 0 .. M : n \in Small
  <2>. HIDE DEF Small, M
  <2>. QED
    BY <1>0, <1>8, <1>9, UpTo
<1>. QED
  <2>1. Modulus \div 2 \in Small
    BY <1>0, <1>10
  <2>2. Modulus \div 2 \in 0 .. (Modulus \div 2)
    BY <1>0
  <2>. QED
    BY <1>7, <2>1, <2>2

LEMMA QuotientIsNumber ==
    ASSUME NEW a \in Int, NEW b \in Int, b # 0
    PROVE  Quotient(a, b) \in Int
<1>1. Abs(a) \in Nat /\ Abs(b) \in Nat \ {0}
  BY DEF Abs
<1>. DEFINE q == Abs(a) \div Abs(b)
<1>2. q \in Int
  BY <1>1
<1>3. Quotient(a, b) = q \/ Quotient(a, b) = -q
  BY DEF Quotient
<1>. HIDE DEF q
<1>. QED
  BY <1>2, <1>3

LEMMA OperandsAreNumbers ==
    ASSUME NEW file \in [RegisterFile -> Words], NEW i \in Instructions
    PROVE  /\ file[i.dst] \in Int /\ file[i.src] \in Int /\ SecondOperand(file, i) \in Int
           /\ file[PSW] \in Words /\ file[SP] \in Int /\ file[PC] \in Int
<1>1. \A r \in RegisterFile : file[r] \in Words /\ file[r] \in Int
  BY WordsAreSigned
<1>. QED
  BY <1>1, InstructionFields, RegisterNames DEF SecondOperand

LEMMA ComputedIsNumber ==
    ASSUME NEW file \in [RegisterFile -> Words], NEW i \in Instructions,
           i.opcode \in Arithmetic \ {"cmp"},
           i.opcode = "div" => SecondOperand(file, i) # 0
    PROVE  Computed(file, i) \in Int
<1>. DEFINE a == file[i.dst]
            b == SecondOperand(file, i)
<1>1. a \in Int /\ b \in Int
  BY OperandsAreNumbers
<1>2. i.opcode \in {"add", "sub", "mul", "div"}
  BY DEF Arithmetic
<1>3. CASE i.opcode = "add"
  BY <1>1, <1>3 DEF Computed
<1>4. CASE i.opcode = "sub"
  BY <1>1, <1>4 DEF Computed
<1>5. CASE i.opcode = "mul"
  BY <1>1, <1>5 DEF Computed
<1>6. CASE i.opcode = "div"
  BY <1>1, <1>6, QuotientIsNumber DEF Computed
<1>. QED
  BY <1>2, <1>3, <1>4, <1>5, <1>6

LEMMA CombinedIsNumber ==
    ASSUME NEW file \in [RegisterFile -> Words], NEW i \in Instructions, i.opcode \in Logic
    PROVE  Combined(file, i) \in Int
<1>. DEFINE a == Unsigned(file[i.dst])
            b == Unsigned(file[i.src])
<1>1. a \in Nat /\ b \in Nat
  BY OperandsAreNumbers, SignedFacts, ModulusIsEven
<1>. HIDE DEF a, b
<1>2. BitAnd(a, b) \in Nat
  BY <1>1, BitAndIsNumber
<1>3. BitOr(a, b) \in Int
  BY <1>1, <1>2 DEF BitOr
<1>4. Signed(BitAnd(a, b)) \in Int /\ Signed(BitOr(a, b)) \in Int /\ Signed(-1 - b) \in Int
  <2>1. BitAnd(a, b) \in Int /\ -1 - b \in Int
    BY <1>1, <1>2
  <2>. QED
    BY <1>3, <2>1, SignedFacts
<1>5. \/ Combined(file, i) = Signed(BitAnd(a, b))
      \/ Combined(file, i) = Signed(BitOr(a, b))
      \/ Combined(file, i) = Signed(-1 - b)
  BY DEF Combined, Logic, a, b
<1>. QED
  BY <1>4, <1>5

LEMMA ShiftedIsNumber ==
    ASSUME NEW v \in Int, NEW i \in Instructions, i.opcode = "mov"
    PROVE  Shifted(v, i) \in Int
<1>1. i.imm \in Shifts /\ i.lr \in {0, 1}
  BY InstructionFields
<1>2. PowerOfTwo[i.imm] \in Nat \ {0}
  BY <1>1, PowersAreNumbers
<1>. DEFINE p == PowerOfTwo[i.imm]
<1>. HIDE DEF p
<1>3. v * p \in Int /\ v \div p \in Int
  BY <1>2 DEF p
<1>4. Signed(v * p) \in Int
  BY <1>3, SignedFacts
<1>5. Shifted(v, i) \in {v, Signed(v * p), v \div p}
  BY <1>1 DEF Shifted, p
<1>. QED
  BY <1>3, <1>4, <1>5

LEMMA StatusIsNumber ==
    ASSUME NEW i, NEW psw \in Words, NEW e \in Int
    PROVE  Status(i, psw, e) \in Int
<1>. DEFINE u == Unsigned(psw)
            z == Flag(Signed(e) = 0, 1)
            n == Flag(e < 0, 8)
            o == Flag(e \notin Words, 2 + 4)
            s == u - (u % 16) + z + o + n
            t == u - (u % 16) + z + ((u % 8) - (u % 2)) + n
<1>1. psw \in Int /\ u \in Int
  BY WordsAreSigned, SignedFacts, ModulusIsEven
<1>2. z \in Int /\ n \in Int /\ o \in Int
  BY DEF Flag
<1>3. Status(i, psw, e) \in {Signed(s), Signed(t), psw}
  BY DEF Status
<1>. HIDE DEF u, z, n, o
<1>4. s \in Int /\ t \in Int
  BY <1>1, <1>2
<1>. HIDE DEF s, t
<1>5. Signed(s) \in Int /\ Signed(t) \in Int
  BY <1>4, SignedFacts
<1>. QED
  BY <1>1, <1>3, <1>5

LEMMA LoadedHalfIsNumber ==
    ASSUME NEW i \in Instructions, NEW old \in Int
    PROVE  LoadHalf(i, old) \in Int
<1>. DEFINE h == Half \div 2
<1>1. Half \in Nat /\ Half > 0 /\ 2 * h = Half
  BY HalfAssumption
<1>2. ASSUME NEW v \in Int PROVE InField(v, Half) \in Int
  <2>1. InField(v, Half) \in -h .. h - 1
    BY <1>1, FieldRange
  <2>. QED
    BY <1>1, <2>1
<1>3. LowHalf(old) \in Int
  BY <1>2 DEF LowHalf
<1>4. HighHalf(old) \in Int
  <2>1. old \div Half \in Int
    BY <1>1
  <2>. QED
    BY <1>2, <2>1 DEF HighHalf
<1>5. ASSUME NEW high \in Int, NEW low \in Int PROVE Join(high, low) \in Int
  <2>1. (high % Half) * Half + (low % Half) \in Int
    <3>1. high % Half \in Int /\ low % Half \in Int
      BY <1>1
    <3>. QED
      BY <1>1, <3>1
  <2>. QED
    BY <2>1, SignedFacts DEF Join
<1>6. i.imm \in Int
  BY InstructionFields
<1>. QED
  BY <1>3, <1>4, <1>5, <1>6 DEF LoadHalf

-----------------------------------------------------------------------------
(* Rounds.                                                                 *)

LEMMA ObserveTyped ==
    ASSUME MachineInv, NEW tick \in Ticks, NEW jumps, Observe(tick, jumps)
    PROVE  /\ image' \in Images /\ image' = image
           /\ ticks' \in 0 .. MaxTicks /\ disturbed' \in BOOLEAN
<1>1. ticks \in 0 .. MaxTicks /\ MaxTicks \in Nat /\ image \in Images
  BY MachineAssumption DEF MachineInv, TypeOK
<1>2. tick => ticks < MaxTicks
  BY DEF Ticks
<1>3. ticks' = IF tick THEN ticks + 1 ELSE ticks
  BY DEF Observe
<1>4. ticks' \in 0 .. MaxTicks
  BY <1>1, <1>2, <1>3
<1>5. disturbed' \in BOOLEAN /\ image' = image
  BY DEF Observe
<1>. QED
  BY <1>1, <1>4, <1>5

\* What an executing instruction finds.
LEMMA ExecutesFacts ==
    ASSUME MachineInv, NEW tick \in BOOLEAN, NEW opcodes, Executes(tick, opcodes)
    PROVE  LET m == Interrupted(tick)
           IN  /\ Fetched \in Instructions /\ Fetched.opcode \in opcodes
               /\ EnteredBy(tick) \in Seq(Frames) /\ Len(EnteredBy(tick)) \in Nat
               /\ SoundStore(image, m, unmatched, Len(EnteredBy(tick)))
               /\ m \in Stores(DOMAIN image.memory)
               /\ m.registers \in [RegisterFile -> Words]
               /\ Stays(m, Fetched)
               /\ tick \in Ticks /\ stage = "run" /\ Fetches
               /\ image \in Images /\ unmatched \in Nat
<1>1. tick \in Ticks /\ stage = "run" /\ Fetches /\ CanTick(tick)
  BY DEF Executes, Round
<1>2. Fetched.opcode \in opcodes /\ Stays(Interrupted(tick), Fetched)
  BY DEF Executes
<1>3. EnteredBy(tick) \in Seq(Frames) /\ SoundStore(image, Interrupted(tick), unmatched, Len(EnteredBy(tick)))
  BY <1>1, InterruptedSound
<1>4. Interrupted(tick) \in Stores(DOMAIN image.memory)
  BY <1>3 DEF SoundStore
<1>5. Interrupted(tick).registers \in [RegisterFile -> Words]
  BY <1>4 DEF Stores
<1>6. image \in Images /\ unmatched \in Nat
  BY DEF MachineInv, TypeOK
<1>7. Len(EnteredBy(tick)) \in Nat
  BY <1>3
<1>. QED
  BY <1>1, <1>2, <1>3, <1>4, <1>5, <1>6, <1>7, FetchedFacts

\* A round that enters and leaves no routine of its own.
LEMMA StraightRound ==
    ASSUME MachineInv, NEW tick \in BOOLEAN, NEW opcodes, Executes(tick, opcodes),
           NEW n, SoundStore(image, n, unmatched, Len(EnteredBy(tick))),
           Continue(tick, n), Straight(tick),
           io_memory' \in [0 .. IoSize - 1 -> Words],
           evaluated_logic' \in {-1, 0, 1, NoCondition}
    PROVE  MachineInv'
<1>1. /\ EnteredBy(tick) \in Seq(Frames) /\ tick \in Ticks /\ stage = "run"
      /\ unmatched \in Nat
  BY ExecutesFacts
<1>2. registers' = n.registers /\ memory' = n.memory /\ stage' = stage
      /\ Observe(tick, Jumps(Fetched))
  BY DEF Continue
<1>3. image' \in Images /\ image' = image /\ ticks' \in 0 .. MaxTicks /\ disturbed' \in BOOLEAN
  BY <1>1, <1>2, ObserveTyped
<1>4. entered' = EnteredBy(tick) /\ returned' = << >> /\ unmatched' = unmatched
  BY DEF Straight
<1>. QED
  BY <1>1, <1>2, <1>3, <1>4, RoundKeeps

LEMMA IoTyped ==
    ASSUME MachineInv
    PROVE  /\ io_memory \in [0 .. IoSize - 1 -> Words]
           /\ evaluated_logic \in {-1, 0, 1, NoCondition}
BY DEF MachineInv, TypeOK

LEMMA SkipKeeps ==
    ASSUME MachineInv, Skip
    PROVE  MachineInv'
<1>1. PICK tick \in BOOLEAN :
        /\ Round(tick)
        /\ registers' = Interrupted(tick).registers
        /\ memory' = Interrupted(tick).memory
        /\ Observe(tick, FALSE)
        /\ Straight(tick)
        /\ UNCHANGED <<io_memory, evaluated_logic, stage>>
  BY DEF Skip
<1>2. tick \in Ticks /\ CanTick(tick) /\ stage = "run"
  BY <1>1 DEF Round
<1>3. EnteredBy(tick) \in Seq(Frames) /\ SoundStore(image, Interrupted(tick), unmatched, Len(EnteredBy(tick)))
  BY <1>2, InterruptedSound
<1>4. image' \in Images /\ image' = image /\ ticks' \in 0 .. MaxTicks /\ disturbed' \in BOOLEAN
  BY <1>1, <1>2, ObserveTyped
<1>5. entered' = EnteredBy(tick) /\ returned' = << >> /\ unmatched' = unmatched /\ unmatched \in Nat
  BY <1>1 DEF Straight, MachineInv, TypeOK
<1>. QED
  BY <1>1, <1>2, <1>3, <1>4, <1>5, IoTyped, RoundKeeps

LEMMA EndRunKeeps ==
    ASSUME MachineInv, EndRun
    PROVE  MachineInv'
<1>1. PICK tick \in Ticks :
        /\ CanTick(tick)
        /\ stage' = "ended"
        /\ registers' = Interrupted(tick).registers
        /\ memory' = Interrupted(tick).memory
        /\ Observe(tick, FALSE)
        /\ Straight(tick)
        /\ UNCHANGED <<io_memory, evaluated_logic>>
  BY DEF EndRun
<1>2. tick \in BOOLEAN
  BY DEF Ticks
<1>3. EnteredBy(tick) \in Seq(Frames) /\ SoundStore(image, Interrupted(tick), unmatched, Len(EnteredBy(tick)))
  BY <1>1, <1>2, InterruptedSound
<1>4. image' \in Images /\ image' = image /\ ticks' \in 0 .. MaxTicks /\ disturbed' \in BOOLEAN
  BY <1>1, <1>2, ObserveTyped
<1>5. entered' = EnteredBy(tick) /\ returned' = << >> /\ unmatched' = unmatched /\ unmatched \in Nat
  BY <1>1 DEF Straight, MachineInv, TypeOK
<1>. QED
  BY <1>1, <1>3, <1>4, <1>5, IoTyped, RoundKeeps

\* The two ways to stop that leave the processor as it was.
LEMMA HaltKeeps ==
    ASSUME MachineInv, NEW tick \in Ticks, Observe(tick, FALSE),
           stage' \in {"crashed", "wild"}, UNCHANGED <<processor, entered, returned, unmatched>>
    PROVE  MachineInv'
<1>1. image' \in Images /\ image' = image /\ ticks' \in 0 .. MaxTicks /\ disturbed' \in BOOLEAN
  BY ObserveTyped
<1>2. /\ registers' = Held.registers /\ memory' = Held.memory
      /\ UNCHANGED <<io_memory, evaluated_logic, entered, returned, unmatched>>
  BY DEF Held, processor
<1>3. /\ SoundStore(image, Held, unmatched, Len(entered)) /\ unmatched \in Nat
      /\ entered \in Seq(Frames) /\ returned \in {<< >>} \cup (Words \X Words)
  BY DEF MachineInv, TypeOK, Frames
<1>. QED
  BY <1>1, <1>2, <1>3, IoTyped, RoundKeeps

-----------------------------------------------------------------------------
(* Operations.                                                             *)

\* An operation gives a register a value and sets the status.
LEMMA SetTwice ==
    ASSUME NEW loaded \in Images, NEW m, NEW returns \in Nat, NEW depth \in Nat,
           SoundStore(loaded, m, returns, depth), NEW r \in RegisterFile, NEW v \in Int,
           Balanced(loaded) => r # SP, NEW i, NEW e \in Int
    PROVE  SoundStore(loaded, Set(Set(m, r, v), PSW, Status(i, Set(m, r, v).registers[PSW], e)),
                      returns, depth)
<1>. DEFINE n == Set(m, r, v)
<1>1. SoundStore(loaded, n, returns, depth)
  BY SetSound
<1>. HIDE DEF n
<1>2. n.registers[PSW] \in Words /\ PSW \in RegisterFile /\ PSW # SP
  BY <1>1, RegisterNames DEF SoundStore, Stores
<1>3. Status(i, n.registers[PSW], e) \in Int
  BY <1>2, StatusIsNumber
<1>. QED
  BY <1>1, <1>2, <1>3, SetSound DEF n

LEMMA ComputeKeeps ==
    ASSUME MachineInv, Compute
    PROVE  MachineInv'
<1>. DEFINE i == Fetched
<1>1. PICK tick \in BOOLEAN :
        LET m == Interrupted(tick)
            e == Computed(m.registers, i)
            result == Set(m, i.dst, e)
        IN  /\ Executes(tick, Arithmetic \ {"cmp"})
            /\ i.opcode = "div" => SecondOperand(m.registers, i) # 0
            /\ Continue(tick, Set(result, PSW, Status(i, result.registers[PSW], e)))
            /\ Straight(tick)
            /\ UNCHANGED <<io_memory, evaluated_logic>>
  BY DEF Compute
<1>. DEFINE m == Interrupted(tick)
            e == Computed(m.registers, i)
            depth == Len(EnteredBy(tick))
            n == Set(Set(m, i.dst, e), PSW, Status(i, Set(m, i.dst, e).registers[PSW], e))
<1>2. /\ Executes(tick, Arithmetic \ {"cmp"}) /\ Continue(tick, n) /\ Straight(tick)
      /\ io_memory' = io_memory /\ evaluated_logic' = evaluated_logic
  BY <1>1
<1>3. /\ i \in Instructions /\ i.opcode \in Arithmetic \ {"cmp"} /\ depth \in Nat
      /\ SoundStore(image, m, unmatched, depth) /\ m.registers \in [RegisterFile -> Words]
      /\ image \in Images /\ unmatched \in Nat /\ Fetches
  BY <1>2, ExecutesFacts
<1>4. e \in Int
  BY <1>1, <1>3, ComputedIsNumber
<1>5. i.dst \in RegisterFile /\ (Balanced(image) => i.dst # SP)
  BY <1>3, InstructionFields, FetchedFacts DEF Arithmetic
<1>. HIDE DEF m, e, depth, i
<1>6. SoundStore(image, n, unmatched, depth)
  BY <1>3, <1>4, <1>5, SetTwice
<1>. HIDE DEF n
<1>. QED
  BY <1>2, <1>6, IoTyped, StraightRound DEF depth

LEMMA CompareKeeps ==
    ASSUME MachineInv, Compare
    PROVE  MachineInv'
<1>. DEFINE i == Fetched
<1>1. PICK tick \in BOOLEAN :
        LET m == Interrupted(tick)
            e == SecondOperand(m.registers, i)
            a == m.registers[i.dst]
        IN  /\ Executes(tick, {"cmp"})
            /\ evaluated_logic' = IF a = e THEN 0 ELSE IF a > e THEN 1 ELSE -1
            /\ Continue(tick, Set(m, PSW, Status(i, m.registers[PSW], e)))
            /\ Straight(tick)
            /\ UNCHANGED io_memory
  BY DEF Compare
<1>. DEFINE m == Interrupted(tick)
            e == SecondOperand(m.registers, i)
            depth == Len(EnteredBy(tick))
            n == Set(m, PSW, Status(i, m.registers[PSW], e))
<1>2. /\ Executes(tick, {"cmp"}) /\ Continue(tick, n) /\ Straight(tick)
      /\ io_memory' = io_memory /\ evaluated_logic' \in {-1, 0, 1, NoCondition}
  BY <1>1
<1>3. /\ i \in Instructions /\ depth \in Nat
      /\ SoundStore(image, m, unmatched, depth) /\ m.registers \in [RegisterFile -> Words]
      /\ image \in Images /\ unmatched \in Nat
  BY <1>2, ExecutesFacts
<1>4. e \in Int /\ m.registers[PSW] \in Words
  BY <1>3, OperandsAreNumbers
<1>5. Status(i, m.registers[PSW], e) \in Int /\ PSW \in RegisterFile /\ PSW # SP
  BY <1>4, StatusIsNumber, RegisterNames
<1>. HIDE DEF m, e, depth, i
<1>6. SoundStore(image, n, unmatched, depth)
  BY <1>3, <1>5, SetSound
<1>. HIDE DEF n
<1>. QED
  BY <1>2, <1>6, IoTyped, StraightRound DEF depth

LEMMA CombineKeeps ==
    ASSUME MachineInv, Combine
    PROVE  MachineInv'
<1>. DEFINE i == Fetched
<1>1. PICK tick \in BOOLEAN :
        LET m == Interrupted(tick)
            e == Combined(m.registers, i)
            result == IF i.opcode = "test" THEN m ELSE Set(m, i.dst, e)
        IN  /\ Executes(tick, Logic)
            /\ Continue(tick, Set(result, PSW, Status(i, result.registers[PSW], e)))
            /\ Straight(tick)
            /\ UNCHANGED <<io_memory, evaluated_logic>>
  BY DEF Combine
<1>. DEFINE m == Interrupted(tick)
            e == Combined(m.registers, i)
            depth == Len(EnteredBy(tick))
            result == IF i.opcode = "test" THEN m ELSE Set(m, i.dst, e)
            n == Set(result, PSW, Status(i, result.registers[PSW], e))
<1>2. /\ Executes(tick, Logic) /\ Continue(tick, n) /\ Straight(tick)
      /\ io_memory' = io_memory /\ evaluated_logic' = evaluated_logic
  BY <1>1
<1>3. /\ i \in Instructions /\ i.opcode \in Logic /\ depth \in Nat
      /\ SoundStore(image, m, unmatched, depth) /\ m.registers \in [RegisterFile -> Words]
      /\ image \in Images /\ unmatched \in Nat /\ Fetches
  BY <1>2, ExecutesFacts
<1>4. e \in Int /\ m.registers[PSW] \in Words
  BY <1>3, CombinedIsNumber, OperandsAreNumbers
<1>5. i.dst \in RegisterFile /\ (Balanced(image) => i.dst # SP)
  BY <1>3, InstructionFields, FetchedFacts DEF Logic
<1>6. Status(i, m.registers[PSW], e) \in Int /\ PSW \in RegisterFile /\ PSW # SP
  BY <1>4, StatusIsNumber, RegisterNames
<1>. HIDE DEF m, e, depth, i
<1>7. SoundStore(image, n, unmatched, depth)
  <2>1. CASE i.opcode = "test"
    BY <1>3, <1>6, <2>1, SetSound
  <2>2. CASE i.opcode # "test"
    BY <1>3, <1>4, <1>5, <2>2, SetTwice
  <2>. QED
    BY <2>1, <2>2
<1>. HIDE DEF n
<1>. QED
  BY <1>2, <1>7, IoTyped, StraightRound DEF depth

LEMMA InputKeeps ==
    ASSUME MachineInv, Input
    PROVE  MachineInv'
<1>. DEFINE i == Fetched
<1>1. PICK tick \in BOOLEAN, c \in Characters :
        LET m == Interrupted(tick)
            port == m.registers[i.src]
        IN  /\ Executes(tick, {"io"})
            /\ io_memory' = IF port = InputPort THEN [io_memory EXCEPT ![port] = c] ELSE io_memory
            /\ Continue(tick, Set(m, i.dst, io_memory'[port]))
            /\ Straight(tick)
            /\ UNCHANGED evaluated_logic
  BY DEF Input
<1>. DEFINE m == Interrupted(tick)
            depth == Len(EnteredBy(tick))
            port == m.registers[i.src]
            n == Set(m, i.dst, io_memory'[port])
<1>2. /\ Executes(tick, {"io"}) /\ Continue(tick, n) /\ Straight(tick)
      /\ evaluated_logic' = evaluated_logic
  BY <1>1
<1>3. /\ i \in Instructions /\ i.opcode = "io" /\ depth \in Nat
      /\ SoundStore(image, m, unmatched, depth) /\ Stays(m, i)
      /\ image \in Images /\ unmatched \in Nat /\ Fetches
  BY <1>2, ExecutesFacts
<1>4. port \in 0 .. IoSize - 1
  BY <1>3, IoTyped DEF Stays
<1>5. c \in Words
  BY MachineAssumption
<1>6. io_memory' \in [0 .. IoSize - 1 -> Words]
  BY <1>1, <1>5, IoTyped
<1>7. io_memory'[port] \in Int
  BY <1>4, <1>6, WordsAreSigned
<1>8. i.dst \in RegisterFile /\ (Balanced(image) => i.dst # SP)
  BY <1>3, InstructionFields, FetchedFacts
<1>. HIDE DEF m, depth, i, port
<1>9. SoundStore(image, n, unmatched, depth)
  BY <1>3, <1>7, <1>8, SetSound
<1>. HIDE DEF n
<1>. QED
  BY <1>2, <1>6, <1>9, IoTyped, StraightRound DEF depth

LEMMA OutputKeeps ==
    ASSUME MachineInv, Output
    PROVE  MachineInv'
<1>. DEFINE i == Fetched
<1>1. PICK tick \in BOOLEAN :
        LET m == Interrupted(tick)
        IN  /\ Executes(tick, {"io"})
            /\ io_memory' = [io_memory EXCEPT ![m.registers[i.src]] = m.registers[i.dst]]
            /\ Continue(tick, m)
            /\ Straight(tick)
            /\ UNCHANGED evaluated_logic
  BY DEF Output
<1>. DEFINE m == Interrupted(tick)
            depth == Len(EnteredBy(tick))
<1>2. /\ Executes(tick, {"io"}) /\ Continue(tick, m) /\ Straight(tick)
      /\ evaluated_logic' = evaluated_logic
  BY <1>1
<1>3. /\ i \in Instructions /\ SoundStore(image, m, unmatched, depth)
      /\ m.registers \in [RegisterFile -> Words]
  BY <1>2, ExecutesFacts
<1>4. m.registers[i.dst] \in Words
  BY <1>3, InstructionFields
<1>5. io_memory' \in [0 .. IoSize - 1 -> Words]
  BY <1>1, <1>4, IoTyped
<1>. HIDE DEF m
<1>. QED
  BY <1>2, <1>3, <1>5, IoTyped, StraightRound

LEMMA MoveKeeps ==
    ASSUME MachineInv, Move
    PROVE  MachineInv'
<1>. DEFINE i == Fetched
<1>1. PICK tick \in BOOLEAN :
        LET m == Interrupted(tick)
            e == Shifted(m.registers[i.src], i)
        IN  /\ Executes(tick, {"mov"})
            /\ Continue(tick, Set(m, i.dst, e))
            /\ Straight(tick)
            /\ UNCHANGED <<io_memory, evaluated_logic>>
  BY DEF Move
<1>. DEFINE m == Interrupted(tick)
            e == Shifted(m.registers[i.src], i)
            depth == Len(EnteredBy(tick))
            n == Set(m, i.dst, e)
<1>2. /\ Executes(tick, {"mov"}) /\ Continue(tick, n) /\ Straight(tick)
      /\ io_memory' = io_memory /\ evaluated_logic' = evaluated_logic
  BY <1>1
<1>3. /\ i \in Instructions /\ i.opcode = "mov" /\ depth \in Nat
      /\ SoundStore(image, m, unmatched, depth) /\ m.registers \in [RegisterFile -> Words]
      /\ image \in Images /\ unmatched \in Nat /\ Fetches
  BY <1>2, ExecutesFacts
<1>4. e \in Int
  BY <1>3, OperandsAreNumbers, ShiftedIsNumber
<1>5. i.dst \in RegisterFile /\ (Balanced(image) => i.dst # SP)
  BY <1>3, InstructionFields, FetchedFacts
<1>. HIDE DEF m, e, depth, i
<1>6. SoundStore(image, n, unmatched, depth)
  BY <1>3, <1>4, <1>5, SetSound
<1>. HIDE DEF n
<1>. QED
  BY <1>2, <1>6, IoTyped, StraightRound DEF depth

LEMMA LoadHalfWordKeeps ==
    ASSUME MachineInv, LoadHalfWord
    PROVE  MachineInv'
<1>. DEFINE i == Fetched
<1>1. PICK tick \in BOOLEAN :
        LET m == Interrupted(tick)
        IN  /\ Executes(tick, {"ldlh"})
            /\ Continue(tick, Set(m, i.dst, LoadHalf(i, m.registers[i.dst])))
            /\ Straight(tick)
            /\ UNCHANGED <<io_memory, evaluated_logic>>
  BY DEF LoadHalfWord
<1>. DEFINE m == Interrupted(tick)
            e == LoadHalf(i, m.registers[i.dst])
            depth == Len(EnteredBy(tick))
            n == Set(m, i.dst, e)
<1>2. /\ Executes(tick, {"ldlh"}) /\ Continue(tick, n) /\ Straight(tick)
      /\ io_memory' = io_memory /\ evaluated_logic' = evaluated_logic
  BY <1>1
<1>3. /\ i \in Instructions /\ i.opcode = "ldlh" /\ depth \in Nat
      /\ SoundStore(image, m, unmatched, depth) /\ m.registers \in [RegisterFile -> Words]
      /\ image \in Images /\ unmatched \in Nat /\ Fetches
  BY <1>2, ExecutesFacts
<1>4. e \in Int
  BY <1>3, OperandsAreNumbers, LoadedHalfIsNumber
<1>5. i.dst \in RegisterFile /\ (Balanced(image) => i.dst # SP)
  BY <1>3, InstructionFields, FetchedFacts
<1>. HIDE DEF m, e, depth, i
<1>6. SoundStore(image, n, unmatched, depth)
  BY <1>3, <1>4, <1>5, SetSound
<1>. HIDE DEF n
<1>. QED
  BY <1>2, <1>6, IoTyped, StraightRound DEF depth

LEMMA NoOperationKeeps ==
    ASSUME MachineInv, NoOperation
    PROVE  MachineInv'
<1>1. PICK tick \in BOOLEAN :
        /\ Executes(tick, {"0xB"})
        /\ Continue(tick, Interrupted(tick))
        /\ Straight(tick)
        /\ UNCHANGED <<io_memory, evaluated_logic>>
  BY DEF NoOperation
<1>2. SoundStore(image, Interrupted(tick), unmatched, Len(EnteredBy(tick)))
  BY <1>1, ExecutesFacts
<1>. QED
  BY <1>1, <1>2, IoTyped, StraightRound

\* The account of the stack is only of balanced programs.
LEMMA AnyDepth ==
    ASSUME NEW loaded, NEW m, NEW returns, NEW depth, SoundStore(loaded, m, returns, depth),
           ~Balanced(loaded), NEW others, NEW any
    PROVE  SoundStore(loaded, m, others, any)
BY DEF SoundStore

LEMMA SideEffects ==
    ASSUME NEW i
    PROVE  Before(i) \in Int /\ Behind(i) \in Int
BY DEF Before, Behind, WordBytes

LEMMA WriteSound ==
    ASSUME NEW loaded \in Images, NEW m, NEW returns \in Nat, NEW depth \in Nat,
           SoundStore(loaded, m, returns, depth), ~Balanced(loaded),
           NEW a \in DOMAIN loaded.memory, NEW n \in Words
    PROVE  SoundStore(loaded, [m EXCEPT !.memory[a] = Number(n)], returns, depth)
<1>. DEFINE D == DOMAIN loaded.memory
            w == [m EXCEPT !.memory[a] = Number(n)]
<1>1. m \in Stores(D)
  BY DEF SoundStore
<1>2. w \in Stores(D) /\ w.memory[a] = Number(n) /\ \A b \in D \ {a} : w.memory[b] = m.memory[b]
  BY <1>1, WriteStore
<1>3. w.memory[a].type = "number"
  BY <1>2, NumberIsWord
<1>. HIDE DEF w
<1>4. \A b \in D : w.memory[b] = loaded.memory[b] \/ w.memory[b].type = "number"
  BY <1>2, <1>3 DEF SoundStore
<1>5. SoundStore(loaded, w, returns, depth)
  BY <1>2, <1>4 DEF SoundStore
<1>. QED
  BY <1>5 DEF w

LEMMA LoadOrStoreKeeps ==
    ASSUME MachineInv, LoadOrStore
    PROVE  MachineInv'
<1>. DEFINE i == Fetched
<1>1. PICK tick \in BOOLEAN :
        LET m == Interrupted(tick)
            base == Set(m, i.src, m.registers[i.src] + Before(i))
            address == Address(m.registers, i)
            moved == IF i.ls = 1 THEN Set(base, i.dst, base.memory[address].number)
                     ELSE [base EXCEPT !.memory[address] = Number(base.registers[i.dst])]
        IN  /\ Executes(tick, {"ldst"})
            /\ Continue(tick, Set(moved, i.src, moved.registers[i.src] + Behind(i)))
            /\ Straight(tick)
            /\ UNCHANGED <<io_memory, evaluated_logic>>
  BY DEF LoadOrStore
<1>. DEFINE m == Interrupted(tick)
            depth == Len(EnteredBy(tick))
            base == Set(m, i.src, m.registers[i.src] + Before(i))
            address == Address(m.registers, i)
            moved == IF i.ls = 1 THEN Set(base, i.dst, base.memory[address].number)
                     ELSE [base EXCEPT !.memory[address] = Number(base.registers[i.dst])]
            n == Set(moved, i.src, moved.registers[i.src] + Behind(i))
<1>2. /\ Executes(tick, {"ldst"}) /\ Continue(tick, n) /\ Straight(tick)
      /\ io_memory' = io_memory /\ evaluated_logic' = evaluated_logic
  BY <1>1
<1>. HIDE DEF n, moved, base
<1>3. /\ i \in Instructions /\ i.opcode = "ldst" /\ depth \in Nat /\ Stays(m, i)
      /\ SoundStore(image, m, unmatched, depth) /\ m.registers \in [RegisterFile -> Words]
      /\ m \in Stores(DOMAIN image.memory)
      /\ image \in Images /\ unmatched \in Nat /\ Fetches
  BY <1>2, ExecutesFacts
<1>4. /\ i.dst \in RegisterFile /\ i.src \in RegisterFile /\ i.ls \in {0, 1}
      /\ (Balanced(image) => i.dst # SP /\ i.src # SP /\ i.ls = 1)
  BY <1>3, InstructionFields, FetchedFacts
<1>5. i.ls = 1 => HasNumber(m.memory, address)
  BY <1>3 DEF Stays, Reads
<1>6. i.ls = 0 => address \in DOMAIN m.memory
  BY <1>3 DEF Stays, Writes
<1>7. m.registers[i.src] + Before(i) \in Int
  BY <1>3, OperandsAreNumbers, SideEffects
<1>8. DOMAIN m.memory = DOMAIN image.memory
  BY <1>3 DEF Stores
<1>. HIDE DEF m, depth, i, address
<1>9. SoundStore(image, base, unmatched, depth) /\ base.memory = m.memory
  <2>. DEFINE v == m.registers[i.src] + Before(i)
  <2>1. /\ image \in Images /\ unmatched \in Nat /\ depth \in Nat
        /\ SoundStore(image, m, unmatched, depth) /\ m \in Stores(DOMAIN image.memory)
        /\ i.src \in RegisterFile /\ v \in Int /\ (Balanced(image) => i.src # SP)
    BY <1>3, <1>4, <1>7
  <2>. HIDE DEF v
  <2>2. SoundStore(image, Set(m, i.src, v), unmatched, depth)
    BY <2>1, SetSound
  <2>3. Set(m, i.src, v).memory = m.memory
    BY <2>1, SetStore
  <2>. QED
    BY <2>2, <2>3 DEF base, v
<1>10. base \in Stores(DOMAIN image.memory)
  BY <1>9 DEF SoundStore
<1>11. SoundStore(image, moved, unmatched, depth)
  <2>1. CASE i.ls = 1
    <3>1. base.memory[address] \in MemoryWords /\ base.memory[address].type = "number"
      BY <1>5, <1>8, <1>9, <1>10, <2>1 DEF HasNumber, Stores
    <3>2. base.memory[address].number \in Int
      BY <3>1, WordTypes, WordsAreSigned
    <3>3. SoundStore(image, Set(base, i.dst, base.memory[address].number), unmatched, depth)
      BY <1>3, <1>4, <1>9, <3>2, SetSound
    <3>. QED
      BY <2>1, <3>3 DEF moved
  <2>2. CASE i.ls # 1
    <3>1. i.ls = 0 /\ ~Balanced(image)
      BY <1>4, <2>2
    <3>2. base.registers[i.dst] \in Words
      BY <1>4, <1>10 DEF Stores
    <3>3. SoundStore(image, [base EXCEPT !.memory[address] = Number(base.registers[i.dst])], unmatched, depth)
      BY <1>3, <1>6, <1>8, <1>9, <3>1, <3>2, WriteSound
    <3>. QED
      BY <2>2, <3>3 DEF moved
  <2>. QED
    BY <2>1, <2>2
<1>12. moved.registers[i.src] + Behind(i) \in Int
  <2>1. moved.registers[i.src] \in Words
    BY <1>4, <1>11 DEF SoundStore, Stores
  <2>. QED
    BY <2>1, WordsAreSigned, SideEffects
<1>13. SoundStore(image, n, unmatched, depth)
  BY <1>3, <1>4, <1>11, <1>12, SetSound DEF n
<1>. QED
  BY <1>2, <1>13, IoTyped, StraightRound DEF depth

LEMMA DivideByZeroKeeps ==
    ASSUME MachineInv, DivideByZero
    PROVE  MachineInv'
<1>1. PICK tick \in BOOLEAN :
        /\ Executes(tick, {"div"})
        /\ stage' = "crashed"
        /\ Observe(tick, FALSE)
        /\ UNCHANGED <<processor, entered, returned, unmatched>>
  BY DEF DivideByZero
<1>2. tick \in Ticks
  BY <1>1 DEF Executes, Round
<1>. QED
  BY <1>1, <1>2, HaltKeeps

LEMMA LoseControlKeeps ==
    ASSUME MachineInv, LoseControl
    PROVE  MachineInv'
<1>1. PICK tick \in BOOLEAN :
        /\ tick \in Ticks
        /\ stage' = "wild"
        /\ Observe(tick, FALSE)
        /\ UNCHANGED <<processor, entered, returned, unmatched>>
  BY DEF LoseControl
<1>. QED
  BY <1>1, HaltKeeps

\* A jump that keeps its way back.
LEMMA LinkSound ==
    ASSUME NEW loaded \in Images, NEW m, NEW returns \in Nat, NEW depth \in Nat,
           SoundStore(loaded, m, returns, depth), NEW back \in Int
    PROVE  /\ SoundStore(loaded, Set(m, LR, back), returns, depth)
           /\ Set(m, LR, back).memory = m.memory
           /\ Set(m, LR, back) \in Stores(DOMAIN loaded.memory)
<1>1. LR \in RegisterFile /\ LR # SP
  BY RegisterNames
<1>2. m \in Stores(DOMAIN loaded.memory)
  BY DEF SoundStore
<1>. QED
  BY <1>1, <1>2, SetSound, SetStore

\* A round that enters a routine.
LEMMA RoutineRound ==
    ASSUME MachineInv, NEW tick \in BOOLEAN, NEW opcodes, Executes(tick, opcodes),
           NEW n, SoundStore(image, n, unmatched, Len(EnteredBy(tick)) + 1),
           Continue(tick, n), NEW frame \in Frames, entered' = Append(EnteredBy(tick), frame),
           returned' = << >>, UNCHANGED <<io_memory, evaluated_logic, unmatched>>
    PROVE  MachineInv'
<1>1. /\ EnteredBy(tick) \in Seq(Frames) /\ tick \in Ticks /\ stage = "run"
      /\ unmatched \in Nat
  BY ExecutesFacts
<1>2. registers' = n.registers /\ memory' = n.memory /\ stage' = stage
      /\ Observe(tick, Jumps(Fetched))
  BY DEF Continue
<1>3. image' \in Images /\ image' = image /\ ticks' \in 0 .. MaxTicks /\ disturbed' \in BOOLEAN
  BY <1>1, <1>2, ObserveTyped
<1>4. entered' \in Seq(Frames) /\ Len(entered') = Len(EnteredBy(tick)) + 1
  BY <1>1, AppendTyped
<1>5. io_memory' = io_memory /\ evaluated_logic' = evaluated_logic /\ unmatched' = unmatched
  OBVIOUS
<1>. QED
  BY <1>1, <1>2, <1>3, <1>4, <1>5, IoTyped, RoundKeeps

LEMMA CallKeeps ==
    ASSUME MachineInv, Call
    PROVE  MachineInv'
<1>. DEFINE i == Fetched
            frame(m) == Routine(m.registers[PSW], i.cf = 0)
<1>1. PICK tick \in BOOLEAN :
        LET m == Interrupted(tick)
            saved == IF i.cf = 0 THEN Push(m) ELSE m
            linked == Set(saved, LR, m.registers[PC])
        IN  /\ Executes(tick, {"call"})
            /\ Continue(tick, Set(linked, PC, linked.registers[i.dst] + i.imm))
            /\ entered' = Append(EnteredBy(tick), frame(m))
            /\ returned' = << >>
            /\ UNCHANGED <<io_memory, evaluated_logic, unmatched>>
  BY DEF Call
<1>. DEFINE m == Interrupted(tick)
            depth == Len(EnteredBy(tick))
            saved == IF i.cf = 0 THEN Push(m) ELSE m
            linked == Set(saved, LR, m.registers[PC])
            n == Set(linked, PC, linked.registers[i.dst] + i.imm)
<1>2. /\ Executes(tick, {"call"}) /\ Continue(tick, n)
      /\ entered' = Append(EnteredBy(tick), frame(m)) /\ returned' = << >>
      /\ UNCHANGED <<io_memory, evaluated_logic, unmatched>>
  BY <1>1
<1>3. /\ i \in Instructions /\ i.opcode = "call" /\ depth \in Nat /\ Stays(m, i)
      /\ SoundStore(image, m, unmatched, depth) /\ m.registers \in [RegisterFile -> Words]
      /\ m \in Stores(DOMAIN image.memory)
      /\ image \in Images /\ unmatched \in Nat /\ Fetches
  BY <1>2, ExecutesFacts
<1>4. i.dst \in RegisterFile /\ i.imm \in Int /\ i.cf \in {0, 1} /\ (Balanced(image) => i.cf = 0)
  BY <1>3, InstructionFields, FetchedFacts
<1>5. i.cf = 0 => m.registers[SP] \in DOMAIN image.memory
  BY <1>3 DEF Stays, Writes, Stores
<1>6. m.registers[PC] \in Int /\ m.registers[PSW] \in Words
  BY <1>3, OperandsAreNumbers
<1>7. frame(m) \in Frames
  BY <1>6 DEF Routine, Frames
<1>. HIDE DEF m, depth, i
<1>8. SoundStore(image, saved, unmatched, depth + 1) /\ depth + 1 \in Nat
  <2>1. CASE i.cf = 0
    BY <1>3, <1>5, <2>1, PushSound
  <2>2. CASE i.cf # 0
    <3>1. ~Balanced(image)
      BY <1>4, <2>2
    <3>2. SoundStore(image, m, unmatched, depth + 1)
      BY <1>3, <3>1, AnyDepth
    <3>. QED
      BY <1>3, <2>2, <3>2
  <2>. QED
    BY <2>1, <2>2
<1>. HIDE DEF saved
<1>9. SoundStore(image, linked, unmatched, depth + 1) /\ linked \in Stores(DOMAIN image.memory)
  BY <1>3, <1>6, <1>8, LinkSound
<1>. HIDE DEF linked
<1>10. linked.registers[i.dst] + i.imm \in Int
  <2>1. linked.registers[i.dst] \in Words
    BY <1>4, <1>9 DEF Stores
  <2>. QED
    BY <1>4, <2>1, WordsAreSigned
<1>11. SoundStore(image, n, unmatched, depth + 1)
  <2>1. PC \in RegisterFile /\ PC # SP
    BY RegisterNames
  <2>. QED
    BY <1>3, <1>8, <1>9, <1>10, <2>1, SetSound
<1>. HIDE DEF n, frame
<1>. QED
  BY <1>2, <1>7, <1>11, RoutineRound DEF depth

LEMMA SoftwareInterruptKeeps ==
    ASSUME MachineInv, SoftwareInterrupt
    PROVE  MachineInv'
<1>. DEFINE i == Fetched
            frame(m) == Routine(m.registers[PSW], TRUE)
<1>1. PICK tick \in BOOLEAN :
        LET m == Interrupted(tick)
            linked == Set(Push(m), LR, m.registers[PC])
        IN  /\ Executes(tick, {"int"})
            /\ Continue(tick, Set(linked, PC, linked.memory[m.registers[i.src]].number))
            /\ entered' = Append(EnteredBy(tick), frame(m))
            /\ returned' = << >>
            /\ UNCHANGED <<io_memory, evaluated_logic, unmatched>>
  BY DEF SoftwareInterrupt
<1>. DEFINE m == Interrupted(tick)
            depth == Len(EnteredBy(tick))
            saved == Push(m)
            linked == Set(saved, LR, m.registers[PC])
            vector == m.registers[i.src]
            n == Set(linked, PC, linked.memory[vector].number)
<1>2. /\ Executes(tick, {"int"}) /\ Continue(tick, n)
      /\ entered' = Append(EnteredBy(tick), frame(m)) /\ returned' = << >>
      /\ UNCHANGED <<io_memory, evaluated_logic, unmatched>>
  BY <1>1
<1>3. /\ i \in Instructions /\ i.opcode = "int" /\ depth \in Nat /\ Stays(m, i)
      /\ SoundStore(image, m, unmatched, depth) /\ m.registers \in [RegisterFile -> Words]
      /\ m \in Stores(DOMAIN image.memory)
      /\ image \in Images /\ unmatched \in Nat
  BY <1>2, ExecutesFacts
<1>4. m.registers[SP] \in DOMAIN image.memory
  BY <1>3 DEF Stays, Writes, Stores
<1>5. HasNumber(m.memory, vector)
  BY <1>3 DEF Stays, Reads
<1>6. m.registers[PC] \in Int /\ m.registers[PSW] \in Words
  BY <1>3, OperandsAreNumbers
<1>7. frame(m) \in Frames
  <2>. DEFINE x == m.registers[PSW]
  <2>1. x \in Words
    BY <1>6
  <2>. HIDE DEF x
  <2>2. [psw |-> x, saved |-> TRUE] \in Frames
    BY <2>1 DEF Frames
  <2>. QED
    BY <2>2 DEF Routine, x
<1>8. DOMAIN image.memory \subseteq 0 .. Modulus \div 2 - 1 - WordBytes
  BY <1>3, LoadedFacts
<1>9. vector \in DOMAIN image.memory /\ m.memory[vector].type = "number"
  BY <1>3, <1>5 DEF HasNumber, Stores
<1>. HIDE DEF m, depth, i, vector
<1>10. SoundStore(image, saved, unmatched, depth + 1) /\ depth + 1 \in Nat
  BY <1>3, <1>4, PushSound
<1>11. /\ saved.memory[m.registers[SP]] = Number(m.registers[PSW])
       /\ \A b \in DOMAIN image.memory \ {m.registers[SP]} : saved.memory[b] = m.memory[b]
  BY <1>3, <1>4, <1>8, PushStore
<1>12. saved.memory[vector].type = "number"
  BY <1>9, <1>11 DEF Number
<1>. HIDE DEF saved
<1>13. /\ SoundStore(image, linked, unmatched, depth + 1) /\ linked \in Stores(DOMAIN image.memory)
       /\ linked.memory = saved.memory
  BY <1>3, <1>6, <1>10, LinkSound
<1>. HIDE DEF linked
<1>14. linked.memory[vector].number \in Int
  <2>1. linked.memory[vector] \in MemoryWords
    BY <1>9, <1>13 DEF Stores
  <2>. QED
    BY <1>12, <1>13, <2>1, WordTypes, WordsAreSigned
<1>15. SoundStore(image, n, unmatched, depth + 1)
  <2>1. PC \in RegisterFile /\ PC # SP
    BY RegisterNames
  <2>. QED
    BY <1>3, <1>10, <1>13, <1>14, <2>1, SetSound
<1>. HIDE DEF n, frame
<1>. QED
  BY <1>2, <1>7, <1>15, RoutineRound DEF depth

LEMMA LeftTyped ==
    ASSUME NEW T, NEW t \in Seq(T), t # << >>
    PROVE  /\ Front(t) \in Seq(T) /\ Len(Front(t)) = Len(t) - 1
           /\ Last(t) \in T /\ Len(t) \in Nat \ {0}
BY DEF Front, Last

LEMMA ReturnKeeps ==
    ASSUME MachineInv, Return
    PROVE  MachineInv'
<1>. DEFINE i == Fetched
<1>1. PICK tick \in BOOLEAN :
        LET m == Interrupted(tick)
            e == Shifted(m.registers[i.src], i)
            frames == EnteredBy(tick)
            psw == m.memory[m.registers[SP]].number
        IN  /\ Executes(tick, {"mov"})
            /\ i.dst = PC
            /\ Continue(tick, Set(Set(Set(m, PC, e), PSW, psw), SP, m.registers[SP] - WordBytes))
            /\ entered' = IF frames = << >> THEN frames ELSE Front(frames)
            /\ returned' = IF frames = << >> \/ ~Last(frames).saved THEN << >>
                           ELSE <<Last(frames).psw, psw>>
            /\ unmatched' = IF frames = << >> THEN unmatched + 1 ELSE unmatched
            /\ UNCHANGED <<io_memory, evaluated_logic>>
  BY DEF Return
<1>. DEFINE m == Interrupted(tick)
            e == Shifted(m.registers[i.src], i)
            frames == EnteredBy(tick)
            depth == Len(frames)
            psw == m.memory[m.registers[SP]].number
            moved == Set(m, PC, e)
            restored == Set(moved, PSW, psw)
            n == Set(restored, SP, m.registers[SP] - WordBytes)
<1>2. /\ Executes(tick, {"mov"}) /\ i.dst = PC /\ Continue(tick, n)
      /\ entered' = (IF frames = << >> THEN frames ELSE Front(frames))
      /\ returned' = (IF frames = << >> \/ ~Last(frames).saved THEN << >>
                      ELSE <<Last(frames).psw, psw>>)
      /\ unmatched' = (IF frames = << >> THEN unmatched + 1 ELSE unmatched)
      /\ io_memory' = io_memory /\ evaluated_logic' = evaluated_logic
  BY <1>1
<1>3. /\ i \in Instructions /\ i.opcode = "mov" /\ depth \in Nat /\ Stays(m, i)
      /\ SoundStore(image, m, unmatched, depth) /\ m.registers \in [RegisterFile -> Words]
      /\ m \in Stores(DOMAIN image.memory) /\ frames \in Seq(Frames)
      /\ image \in Images /\ unmatched \in Nat /\ tick \in Ticks /\ stage = "run"
  BY <1>2, ExecutesFacts
<1>4. HasNumber(m.memory, m.registers[SP])
  BY <1>2, <1>3 DEF Stays, Reads
<1>5. /\ m.registers[SP] \in DOMAIN image.memory
      /\ m.memory[m.registers[SP]] \in MemoryWords /\ m.memory[m.registers[SP]].type = "number"
  BY <1>3, <1>4 DEF HasNumber, Stores
<1>6. psw \in Words /\ psw \in Int
  BY <1>5, WordTypes, WordsAreSigned
<1>7. e \in Int
  BY <1>3, OperandsAreNumbers, ShiftedIsNumber
<1>8. {PC, PSW, SP} \subseteq RegisterFile /\ PC # SP /\ PSW # SP
  BY RegisterNames
<1>9. image' \in Images /\ image' = image /\ ticks' \in 0 .. MaxTicks /\ disturbed' \in BOOLEAN
      /\ registers' = n.registers /\ memory' = n.memory /\ stage' = stage
  <2>1. Observe(tick, Jumps(Fetched)) /\ registers' = n.registers /\ memory' = n.memory /\ stage' = stage
    BY <1>2 DEF Continue
  <2>. QED
    BY <1>3, <2>1, ObserveTyped
<1>. HIDE DEF m, e, frames, i, psw
<1>10. SoundStore(image, moved, unmatched, depth) /\ moved.registers[SP] = m.registers[SP]
  <2>1. SoundStore(image, moved, unmatched, depth)
    BY <1>3, <1>7, <1>8, SetSound
  <2>2. moved.registers[SP] = m.registers[SP]
    BY <1>3, <1>7, <1>8, SetStore
  <2>. QED
    BY <2>1, <2>2
<1>. HIDE DEF moved
<1>11. moved \in Stores(DOMAIN image.memory)
  BY <1>10 DEF SoundStore
<1>12. SoundStore(image, restored, unmatched, depth) /\ restored.registers[SP] = m.registers[SP]
  <2>1. SoundStore(image, restored, unmatched, depth)
    BY <1>3, <1>6, <1>8, <1>10, SetSound
  <2>2. restored.registers[SP] = moved.registers[SP]
    BY <1>6, <1>8, <1>11, SetStore
  <2>. QED
    BY <1>10, <2>1, <2>2
<1>. HIDE DEF restored
<1>13. IF depth = 0 THEN SoundStore(image, n, unmatched + 1, 0)
       ELSE SoundStore(image, n, unmatched, depth - 1)
  BY <1>3, <1>5, <1>12, PopSound
<1>. HIDE DEF n
<1>14. frames = << >> <=> depth = 0
  BY <1>3
<1>15. CASE frames = << >>
  <2>1. entered' \in Seq(Frames) /\ Len(entered') = 0 /\ returned' = << >> /\ unmatched' = unmatched + 1
    BY <1>2, <1>15
  <2>2. SoundStore(image', n, unmatched', Len(entered')) /\ unmatched' \in Nat
    BY <1>3, <1>9, <1>13, <1>14, <1>15, <2>1
  <2>. QED
    BY <1>2, <1>3, <1>9, <2>1, <2>2, IoTyped, RoundKeeps
<1>16. CASE frames # << >>
  <2>1. Front(frames) \in Seq(Frames) /\ Len(Front(frames)) = depth - 1 /\ Last(frames) \in Frames
    BY <1>3, <1>16, LeftTyped
  <2>2. entered' = Front(frames) /\ unmatched' = unmatched
        /\ returned' \in {<< >>, <<Last(frames).psw, psw>>}
    BY <1>2, <1>16
  <2>3. returned' \in {<< >>} \cup (Words \X Words)
    BY <1>6, <2>1, <2>2 DEF Frames
  <2>4. SoundStore(image', n, unmatched', Len(entered'))
    BY <1>9, <1>13, <1>14, <1>16, <2>1, <2>2
  <2>. QED
    BY <1>2, <1>3, <1>9, <2>1, <2>2, <2>3, <2>4, IoTyped, RoundKeeps
<1>. QED
  BY <1>15, <1>16

-----------------------------------------------------------------------------
(* The theorems.                                                           *)

LEMMA InitHolds ==
    ASSUME Init
    PROVE  MachineInv
<1>1. image \in Images /\ memory = image.memory /\ entered = << >> /\ unmatched = 0
  BY DEF Init
<1>2. /\ image.boot \in Nat /\ StackStart(image) \in Words /\ image.main \in Words
      /\ memory \in [DOMAIN image.memory -> MemoryWords]
  BY <1>1, ImagesAssumption
<1>3. 0 \in Words /\ image.boot \in Words
  <2>1. Modulus \in Nat /\ Modulus > 0 /\ 2 * (Modulus \div 2) = Modulus
    BY ModulusIsEven
  <2>2. Len(BootRoutine) = 4
    BY DEF BootRoutine
  <2>3. StackStart(image) = image.boot + 16
    BY <1>2, <2>2 DEF StackStart, InstructionBytes
  <2>. HIDE DEF Modulus
  <2>. QED
    BY <1>2, <2>1, <2>3 DEF Words
<1>4. registers = [r \in RegisterFile |->
                      CASE r = PC -> image.boot
                        [] r = LR -> image.main
                        [] r = SP -> StackStart(image)
                        [] OTHER -> 0]
  BY DEF Init
<1>5. registers \in [RegisterFile -> Words]
  BY <1>2, <1>3, <1>4
<1>6. registers[SP] = StackStart(image)
  <2>1. SP \in RegisterFile /\ SP \notin {PC, LR}
    BY RegisterNames
  <2>. QED
    BY <1>4, <2>1
<1>7. TypeOK
  <2>1. io_memory \in [0 .. IoSize - 1 -> Words] /\ ticks \in 0 .. MaxTicks
    BY <1>3, MachineAssumption DEF Init
  <2>2. /\ evaluated_logic \in {-1, 0, 1, NoCondition}
        /\ stage \in {"run", "ended", "crashed", "wild"}
        /\ returned \in {<< >>} \cup (Words \X Words)
        /\ disturbed \in BOOLEAN
    BY DEF Init
  <2>3. entered \in Seq(Frames) /\ unmatched \in Nat
    BY <1>1
  <2>. QED
    BY <1>1, <1>2, <1>5, <2>1, <2>2, <2>3 DEF TypeOK, Frames
<1>8. Held \in Stores(DOMAIN image.memory) /\ Held.memory = image.memory
      /\ Held.registers[SP] = StackStart(image)
  BY <1>1, <1>2, <1>5, <1>6 DEF Held, Stores
<1>9. StackStart(image) = Bottom(image, unmatched) + WordBytes * Len(entered)
  <2>1. StackStart(image) \in Int
    BY <1>2, WordsAreSigned
  <2>2. Len(entered) = 0
    BY <1>1
  <2>. QED
    BY <1>1, <2>1, <2>2 DEF Bottom, WordBytes
<1>10. SoundStore(image, Held, unmatched, Len(entered))
  BY <1>8, <1>9 DEF SoundStore
<1>. QED
  BY <1>1, <1>7, <1>10 DEF MachineInv

LEMMA StopKeeps ==
    ASSUME MachineInv, UNCHANGED vars
    PROVE  MachineInv'
<1>1. Held' = Held /\ UNCHANGED vars
  BY DEF Held, vars
<1>. QED
  BY <1>1 DEF MachineInv, TypeOK, vars

LEMMA NextKeeps ==
    ASSUME MachineInv, [Next]_vars
    PROVE  MachineInv'
<1>1. CASE Skip          BY <1>1, SkipKeeps
<1>2. CASE Compute       BY <1>2, ComputeKeeps
<1>3. CASE DivideByZero  BY <1>3, DivideByZeroKeeps
<1>4. CASE Compare       BY <1>4, CompareKeeps
<1>5. CASE Combine       BY <1>5, CombineKeeps
<1>6. CASE Input         BY <1>6, InputKeeps
<1>7. CASE Output        BY <1>7, OutputKeeps
<1>8. CASE LoadOrStore   BY <1>8, LoadOrStoreKeeps
<1>9. CASE Call          BY <1>9, CallKeeps
<1>10. CASE SoftwareInterrupt  BY <1>10, SoftwareInterruptKeeps
<1>11. CASE Move         BY <1>11, MoveKeeps
<1>12. CASE Return       BY <1>12, ReturnKeeps
<1>13. CASE LoadHalfWord BY <1>13, LoadHalfWordKeeps
<1>14. CASE NoOperation  BY <1>14, NoOperationKeeps
<1>15. CASE EndRun       BY <1>15, EndRunKeeps
<1>16. CASE LoseControl  BY <1>16, LoseControlKeeps
<1>17. CASE UNCHANGED vars  BY <1>17, StopKeeps
<1>. QED
  BY <1>1, <1>2, <1>3, <1>4, <1>5, <1>6, <1>7, <1>8, <1>9, <1>10, <1>11, <1>12, <1>13,
     <1>14, <1>15, <1>16, <1>17 DEF Next, Stopped

LEMMA AlwaysSound == Spec => []MachineInv
<1>. QED
  BY InitHolds, NextKeeps, PTL DEF Spec

\* Type correctness of the processor: every number that an operation leaves
\* in a register, a memory word or a port fits a word, whatever the program
\* and the clock do, and what is recorded of the routines is well formed.
THEOREM TypeCorrect == Spec => []TypeOK
<1>1. MachineInv => TypeOK
  BY DEF MachineInv
<1>. QED
  BY <1>1, AlwaysSound, PTL

\* In a balanced program the stack pointer is at every moment the place that
\* the routines entered and the returns from nothing account for, with any
\* interleaving of interrupts, and the memory below the lowest place at which
\* the stack began is as loaded.
THEOREM StackAccounted == Spec => []StackSparesProgram
<1>1. MachineInv => StackSparesProgram
  BY HeldFacts DEF MachineInv, SoundStore, StackSparesProgram, Bottom
<1>. QED
  BY <1>1, AlwaysSound, PTL
=============================================================================
