---------------------------- MODULE LinkerProofs ----------------------------
(***************************************************************************)
(* For every set of command lines: what the linker's variables hold, that  *)
(* merged sections fit, that symbols move with their section, and that a   *)
(* link is refused exactly over rival definitions.                         *)
(***************************************************************************)
EXTENDS LinkerProperties, SymbolTableProofs, SequenceTheorems

-----------------------------------------------------------------------------
(* Positions in the merged tables are sums over the files before.          *)

Counts(before, m, count) ==
    before = [g \in 1 .. m |-> IF g = 1 THEN 0 ELSE before[g - 1] + count[g - 1]]

LEMMA CountsExist ==
    ASSUME NEW N \in Nat, NEW count
    PROVE  \E before : Counts(before, N + 1, count)
<1>. DEFINE S == {m \in 0 .. N : \E before : Counts(before, m + 1, count)}
<1>1. 0 \in S
  <2>1. Counts([g \in 1 .. 0 + 1 |-> 0], 0 + 1, count)
    BY DEF Counts
  <2>. QED
    BY <2>1
<1>2. ASSUME NEW m \in 1 .. N, m - 1 \in S PROVE m \in S
  <2>1. PICK b : Counts(b, m, count)
    <3>1. (m - 1) + 1 = m
      OBVIOUS
    <3>. QED
      BY <1>2, <3>1
  <2>. DEFINE c == [g \in 1 .. m + 1 |-> IF g = m + 1 THEN b[m] + count[m] ELSE b[g]]
  <2>2. ASSUME NEW g \in 1 .. m + 1
        PROVE  c[g] = IF g = 1 THEN 0 ELSE c[g - 1] + count[g - 1]
    <3>1. CASE g = m + 1
      <4>1. g - 1 = m /\ m \in 1 .. m + 1 /\ m # m + 1 /\ g # 1
        BY <3>1
      <4>2. c[g] = b[m] + count[m] /\ c[m] = b[m]
        BY <3>1, <4>1
      <4>. QED
        BY <4>1, <4>2
    <3>2. CASE g # m + 1
      <4>1. g \in 1 .. m /\ c[g] = b[g]
        BY <3>2
      <4>2. b[g] = IF g = 1 THEN 0 ELSE b[g - 1] + count[g - 1]
        BY <2>1, <4>1 DEF Counts
      <4>3. g # 1 => g - 1 \in 1 .. m + 1 /\ g - 1 # m + 1 /\ c[g - 1] = b[g - 1]
        BY <4>1
      <4>. QED
        BY <4>1, <4>2, <4>3
    <3>. QED
      BY <3>1, <3>2
  <2>3. Counts(c, m + 1, count)
    BY <2>2 DEF Counts
  <2>. QED
    BY <2>3
<1>3. N \in 0 .. N
  OBVIOUS
<1>4. N \in S
  <2>. HIDE DEF S
  <2>. QED
    BY <1>1, <1>2, <1>3, UpTo
<1>. QED
  BY <1>4

LEMMA CountsAgree ==
    ASSUME NEW m \in Nat, NEW n \in Nat, m <= n, NEW count, NEW b, NEW c,
           Counts(b, m + 1, count), Counts(c, n + 1, count)
    PROVE  \A g \in 1 .. m + 1 : b[g] = c[g]
<1>. DEFINE S == {g \in 0 .. m : b[g + 1] = c[g + 1]}
<1>1. 0 \in S
  <2>1. b[1] = 0 /\ c[1] = 0
    BY DEF Counts
  <2>. QED
    BY <2>1
<1>2. ASSUME NEW g \in 1 .. m, g - 1 \in S PROVE g \in S
  <2>1. g + 1 \in 1 .. m + 1 /\ g + 1 \in 1 .. n + 1 /\ g + 1 # 1 /\ (g + 1) - 1 = g
    OBVIOUS
  <2>2. b[g + 1] = b[(g + 1) - 1] + count[(g + 1) - 1]
    BY <2>1 DEF Counts
  <2>3. c[g + 1] = c[(g + 1) - 1] + count[(g + 1) - 1]
    BY <2>1 DEF Counts
  <2>4. (g - 1) + 1 = g /\ b[g] = c[g]
    BY <1>2
  <2>. QED
    BY <2>1, <2>2, <2>3, <2>4
<1>3. \A g \in 0 .. m : g \in S
  <2>. HIDE DEF S
  <2>. QED
    BY <1>1, <1>2, UpTo
<1>4. ASSUME NEW g \in 1 .. m + 1 PROVE b[g] = c[g]
  <2>1. g - 1 \in 0 .. m /\ (g - 1) + 1 = g
    OBVIOUS
  <2>2. g - 1 \in S
    <3>. HIDE DEF S
    <3>. QED
      BY <1>3, <2>1
  <2>3. b[(g - 1) + 1] = c[(g - 1) + 1]
    BY <2>2
  <2>. QED
    BY <2>1, <2>3
<1>. QED
  BY <1>4

\* What stands before file f: nothing, or what stands before file f - 1 and
\* that file's own.
LEMMA CountBeforeSums ==
    ASSUME NEW N \in Nat, NEW count \in [1 .. N -> Nat]
    PROVE  /\ CountBefore(1, count) = 0
           /\ \A f \in 1 .. N + 1 : CountBefore(f, count) \in Nat
           /\ \A f \in 1 .. N :
                 CountBefore(f + 1, count) = CountBefore(f, count) + count[f]
<1>1. PICK sum : Counts(sum, N + 1, count)
  BY CountsExist
<1>2. ASSUME NEW f \in 1 .. N + 1 PROVE CountBefore(f, count) = sum[f]
  <2>1. PICK m \in Nat : f = m + 1 /\ m <= N
    <3>1. f - 1 \in Nat /\ f = (f - 1) + 1 /\ f - 1 <= N
      OBVIOUS
    <3>. QED
      BY <3>1
  <2>2. \E b : Counts(b, m + 1, count)
    BY <2>1, CountsExist
  <2>3. PICK b : Counts(b, m + 1, count) /\ CountBefore(m + 1, count) = b[m + 1]
    BY <2>2 DEF CountBefore, Counts
  <2>4. \A g \in 1 .. m + 1 : b[g] = sum[g]
    BY <1>1, <2>1, <2>3, CountsAgree
  <2>. QED
    BY <2>1, <2>3, <2>4
<1>3. sum[1] = 0
  BY <1>1 DEF Counts
<1>4. ASSUME NEW f \in 1 .. N PROVE sum[f + 1] = sum[f] + count[f]
  <2>1. f + 1 \in 1 .. N + 1 /\ f + 1 # 1 /\ (f + 1) - 1 = f
    OBVIOUS
  <2>. QED
    BY <1>1, <2>1 DEF Counts
<1>5. \A f \in 1 .. N + 1 : sum[f] \in Nat
  <2>. DEFINE S == {g \in 0 .. N : sum[g + 1] \in Nat}
  <2>1. 0 \in S
    BY <1>3
  <2>2. ASSUME NEW g \in 1 .. N, g - 1 \in S PROVE g \in S
    <3>1. (g - 1) + 1 = g /\ sum[g] \in Nat /\ count[g] \in Nat
      BY <2>2
    <3>. QED
      BY <1>4, <3>1
  <2>3. \A g \in 0 .. N : g \in S
    <3>. HIDE DEF S
    <3>. QED
      BY <2>1, <2>2, UpTo
  <2>4. ASSUME NEW f \in 1 .. N + 1 PROVE sum[f] \in Nat
    <3>1. f - 1 \in 0 .. N /\ (f - 1) + 1 = f
      OBVIOUS
    <3>2. f - 1 \in S
      <4>. HIDE DEF S
      <4>. QED
        BY <2>3, <3>1
    <3>3. sum[(f - 1) + 1] \in Nat
      BY <3>2
    <3>. QED
      BY <3>1, <3>3
  <2>. QED
    BY <2>4
<1>6. \A f \in 1 .. N : f \in 1 .. N + 1 /\ f + 1 \in 1 .. N + 1
  OBVIOUS
<1>7. 1 \in 1 .. N + 1
  OBVIOUS
<1>. QED
  BY <1>2, <1>3, <1>4, <1>5, <1>6, <1>7

\* Sums grow with the files.
LEMMA CountBeforeGrows ==
    ASSUME NEW N \in Nat, NEW count \in [1 .. N -> Nat],
           NEW f \in 1 .. N + 1, NEW g \in 1 .. N + 1, f <= g
    PROVE  CountBefore(f, count) <= CountBefore(g, count)
<1>. DEFINE S == {d \in 0 .. g - f : CountBefore(f, count) <= CountBefore(f + d, count)}
<1>1. 0 \in S
  BY CountBeforeSums
<1>2. ASSUME NEW d \in 1 .. g - f, d - 1 \in S PROVE d \in S
  <2>1. /\ f + (d - 1) \in 1 .. N /\ f + d = (f + (d - 1)) + 1
        /\ f + (d - 1) \in 1 .. N + 1 /\ f + d \in 1 .. N + 1
    OBVIOUS
  <2>2. CountBefore(f + d, count) = CountBefore(f + (d - 1), count) + count[f + (d - 1)]
    BY <2>1, CountBeforeSums
  <2>3. /\ CountBefore(f, count) \in Nat /\ CountBefore(f + (d - 1), count) \in Nat
        /\ count[f + (d - 1)] \in Nat
    <3>1. \A h \in 1 .. N + 1 : CountBefore(h, count) \in Nat
      BY CountBeforeSums
    <3>. QED
      BY <2>1, <3>1
  <2>. HIDE DEF S
  <2>4. CountBefore(f, count) <= CountBefore(f + (d - 1), count)
    BY <1>2 DEF S
  <2>5. CountBefore(f, count) <= CountBefore(f + d, count)
    BY <2>2, <2>3, <2>4
  <2>. QED
    BY <2>5 DEF S
<1>3. g - f \in 0 .. g - f /\ g - f \in Nat /\ f + (g - f) = g
  OBVIOUS
<1>4. g - f \in S
  <2>. HIDE DEF S
  <2>. QED
    BY <1>1, <1>2, <1>3, UpTo
<1>. QED
  BY <1>3, <1>4

-----------------------------------------------------------------------------
(* What is loaded.                                                         *)

Context == [bss_size: Nat, data_size: Nat, text_size: Nat, data: Seq(Chunk),
            text: Seq(Chunk), symtable: Seq(Symbol(Names)), reloctable: Seq(Relocation)]

LEMMA ElementTyped ==
    ASSUME NEW T, NEW s \in Seq(T), NEW k \in DOMAIN s
    PROVE  s[k] \in T
OBVIOUS

LEMMA TiledLength ==
    ASSUME NEW chunks \in Seq(Chunk), NEW end, Tiled(chunks, end)
    PROVE  end \in Nat
<1>1. CASE chunks = << >>
  BY <1>1 DEF Tiled
<1>2. CASE chunks # << >>
  <2>1. Len(chunks) \in DOMAIN chunks
    BY <1>2
  <2>2. chunks[Len(chunks)] \in Chunk
    BY <2>1, ElementTyped
  <2>3. chunks[Len(chunks)].at \in Nat /\ chunks[Len(chunks)].size \in Nat
    BY <2>2 DEF Chunk
  <2>. QED
    BY <1>2, <2>3 DEF Tiled
<1>. QED
  BY <1>1, <1>2

LEMMA LengthsTyped ==
    ASSUME NEW object \in Image, WellFormed(object)
    PROVE  SectionLength(object) \in [Contents -> Nat]
<1>1. /\ Tiled(object.data, SectionLength(object).data)
      /\ Tiled(object.text, SectionLength(object).text)
  BY DEF WellFormed
<1>2. object.data \in Seq(Chunk) /\ object.text \in Seq(Chunk) /\ object.bss_size \in Nat
  BY DEF Image
<1>3. SectionLength(object).data \in Nat /\ SectionLength(object).text \in Nat
  BY <1>1, <1>2, TiledLength
<1>. QED
  BY <1>2, <1>3 DEF SectionLength, Contents

LEMMA ExactDivision == ASSUME NEW n \in Nat PROVE (48 * n) \div 48 = n /\ (8 * n) \div 8 = n
OBVIOUS

\* Loading gives back every part of a well formed object whole.
LEMMA LoadedWhole ==
    ASSUME NEW object \in Image, WellFormed(object)
    PROVE  /\ LoadContext(object) \in Context
           /\ LoadContext(object).symtable = object.symbols
           /\ LoadContext(object).reloctable = object.relocs
           /\ LoadContext(object).bss_size = SectionLength(object)["bss"]
           /\ Length(LoadContext(object)) = SectionLength(object)
<1>. DEFINE ctx == LoadContext(object)
<1>1. /\ object.symbols \in Seq(Symbol(Names)) /\ object.relocs \in Seq(Relocation)
      /\ object.data \in Seq(Chunk) /\ object.text \in Seq(Chunk)
      /\ object.bss_size \in Nat /\ object.reloc_start \in Nat /\ object.symbol_start \in Nat
      /\ object.size \in Nat
  BY DEF Image
<1>2. Len(object.symbols) \in Nat /\ Len(object.relocs) \in Nat
  BY <1>1
<1>3. (object.reloc_start - object.symbol_start) \div SymEntrySize = Len(object.symbols)
  <2>1. object.reloc_start - object.symbol_start = 48 * Len(object.symbols)
    BY <1>1, <1>2 DEF WellFormed, SymEntrySize
  <2>2. (48 * Len(object.symbols)) \div 48 = Len(object.symbols)
    BY <1>2, ExactDivision
  <2>. QED
    BY <2>1, <2>2 DEF SymEntrySize
<1>4. (object.size - object.reloc_start) \div RelocEntrySize = Len(object.relocs)
  <2>1. object.size - object.reloc_start = 8 * Len(object.relocs)
    BY <1>1, <1>2 DEF WellFormed, RelocEntrySize
  <2>2. (8 * Len(object.relocs)) \div 8 = Len(object.relocs)
    BY <1>2, ExactDivision
  <2>. QED
    BY <2>1, <2>2 DEF RelocEntrySize
<1>5. ctx.symtable = object.symbols
  <2>1. SubSeq(object.symbols, 1, Len(object.symbols)) = object.symbols
    BY <1>1
  <2>2. TailUnique(object.symbols)
    BY DEF WellFormed
  <2>3. Reload(object.symbols) = object.symbols
    BY <1>1, <2>2, ReloadFaithful
  <2>. QED
    BY <1>3, <2>1, <2>3 DEF LoadContext
<1>6. ctx.reloctable = object.relocs
  <2>1. SubSeq(object.relocs, 1, Len(object.relocs)) = object.relocs
    BY <1>1
  <2>. QED
    BY <1>4, <2>1 DEF LoadContext, ReloadRelocations
<1>7. SectionLength(object) \in [Contents -> Nat]
  BY LengthsTyped
<1>8. /\ ctx.bss_size = object.bss_size
      /\ ctx.data_size = object.text_start - object.data_start
      /\ ctx.text_size = object.symbol_start - object.text_start
      /\ ctx.data = object.data /\ ctx.text = object.text
  BY DEF LoadContext
<1>9. Length(ctx) = SectionLength(object)
  BY <1>8 DEF Length, SectionLength
<1>10. /\ ctx.bss_size = SectionLength(object)["bss"]
       /\ ctx.data_size = SectionLength(object)["data"]
       /\ ctx.text_size = SectionLength(object)["text"]
  BY <1>8 DEF SectionLength
<1>11. ctx \in Context
  <2>1. ctx.bss_size \in Nat /\ ctx.data_size \in Nat /\ ctx.text_size \in Nat
    BY <1>7, <1>10 DEF Contents
  <2>2. ctx = [bss_size |-> ctx.bss_size, data_size |-> ctx.data_size,
               text_size |-> ctx.text_size, data |-> ctx.data, text |-> ctx.text,
               symtable |-> ctx.symtable, reloctable |-> ctx.reloctable]
    BY DEF LoadContext
  <2>3. /\ ctx.symtable \in Seq(Symbol(Names)) /\ ctx.reloctable \in Seq(Relocation)
        /\ ctx.data \in Seq(Chunk) /\ ctx.text \in Seq(Chunk)
    BY <1>1, <1>5, <1>6, <1>8
  <2>. HIDE DEF ctx
  <2>. QED
    BY <2>1, <2>2, <2>3 DEF Context
<1>. QED
  BY <1>5, <1>6, <1>9, <1>10, <1>11

-----------------------------------------------------------------------------
(* Types.                                                                  *)

\* Every context is that of the file at its place.
Loaded ==
    /\ files \in Inputs
    /\ context \in Seq(Context)
    /\ \A f \in DOMAIN context : context[f] = LoadContext(files[f])

LEMMA InputGiven ==
    ASSUME NEW given \in Inputs, NEW f \in DOMAIN given
    PROVE  /\ given \in Seq(Image)
           /\ given[f] \in Image
           /\ WellFormed(given[f])
           /\ SectionLength(given[f]) \in [Contents -> Nat]
           /\ OwnSymbols(given[f].symbols) \in Seq(Symbol(Names))
<1>1. given \in Seq(Image) /\ WellFormed(given[f])
  BY InputsAssumption
<1>2. given[f] \in Image
  BY <1>1, ElementTyped
<1>3. given[f].symbols \in Seq(Symbol(Names))
  BY <1>2 DEF Image
<1>4. OwnSymbols(given[f].symbols) \in Seq(Symbol(Names))
  BY <1>3 DEF OwnSymbols
<1>. QED
  BY <1>1, <1>2, <1>4, LengthsTyped

LEMMA FileGiven ==
    ASSUME Loaded, NEW f \in DOMAIN files
    PROVE  /\ files \in Seq(Image)
           /\ files[f] \in Image
           /\ WellFormed(files[f])
           /\ SectionLength(files[f]) \in [Contents -> Nat]
           /\ Own(f) \in Seq(Symbol(Names))
BY InputGiven DEF Loaded, Own

\* What the merge sees of a file is what nas wrote.
LEMMA ContextGiven ==
    ASSUME TypeOK, Loaded, phase = "merge", i <= Len(files)
    PROVE  /\ i \in DOMAIN files
           /\ context[i].reloctable = files[i].relocs
           /\ context[i].reloctable \in Seq(Relocation)
           /\ OwnSymbols(context[i].symtable) = Own(i)
           /\ Own(i) \in Seq(Symbol(Names))
           /\ Length(context[i]) = SectionLength(files[i])
           /\ SectionLength(files[i]) \in [Contents -> Nat]
           /\ context[i].bss_size = SectionLength(files[i])["bss"]
<1>1. i \in DOMAIN files /\ i \in DOMAIN context
  BY DEF TypeOK, Loaded
<1>2. context[i] = LoadContext(files[i]) /\ context[i] \in Context
  BY <1>1, ElementTyped DEF Loaded
<1>3. context[i].reloctable \in Seq(Relocation)
  BY <1>2 DEF Context
<1>. QED
  BY <1>1, <1>2, <1>3, FileGiven, LoadedWhole DEF Own

LEMMA MovedSymbolTyped ==
    ASSUME NEW symbol \in Symbol(Names), NEW offsets \in [Contents -> Nat]
    PROVE  MovedSymbol(symbol, offsets) \in Symbol(Names)
<1>1. CASE symbol.section \in Contents
  <2>1. symbol.offset + offsets[symbol.section] \in Nat
    BY <1>1 DEF Symbol
  <2>. QED
    BY <1>1, <2>1 DEF MovedSymbol, Symbol
<1>2. CASE symbol.section \notin Contents
  BY <1>2 DEF MovedSymbol
<1>. QED
  BY <1>1, <1>2

LEMMA MovedRelocationTyped ==
    ASSUME NEW reloc \in Relocation, NEW file \in Nat, NEW counted \in Nat,
           NEW offsets \in [Contents -> Nat]
    PROVE  MovedRelocation(reloc, file, counted, offsets) \in Relocation
<1>1. reloc.index \in Int /\ reloc.offset \in Nat /\ offsets.text \in Nat
  BY DEF Relocation, Contents
<1>. QED
  BY <1>1 DEF MovedRelocation, Relocation

LEMMA PiecesTyped ==
    ASSUME NEW file \in Nat, NEW s \in Contents, NEW at \in Nat, NEW bytes \in Nat
    PROVE  /\ Pieces(file, s, at, bytes) \in Seq(Piece)
           /\ EndOf(Pieces(file, s, at, bytes), at) \in Nat
<1>1. /\ [file |-> file, at |-> at, size |-> bytes] \in Piece
      /\ [file |-> 0, at |-> at + bytes, size |-> InstructionSize] \in Piece
  BY DEF Piece, InstructionSize
<1>2. Pieces(file, s, at, bytes) \in Seq(Piece)
  BY <1>1 DEF Pieces
<1>3. EndOf(Pieces(file, s, at, bytes), at) \in Nat
  BY DEF Pieces, EndOf, InstructionSize
<1>. QED
  BY <1>2, <1>3

LEMMA InitTyped == Init => TypeOK /\ Loaded
<1>. SUFFICES ASSUME Init PROVE TypeOK /\ Loaded
  OBVIOUS
<1>1. files \in Seq(Image)
  BY InputsAssumption DEF Init
<1>2. i \in 1 .. Len(files) + 1 /\ current \in 1 .. Len(symtable) + 1
  BY <1>1 DEF Init
<1>. QED
  BY <1>1, <1>2 DEF Init, TypeOK, Loaded

LEMMA LoadFileTyped == ASSUME TypeOK, Loaded, LoadFile PROVE TypeOK' /\ Loaded'
<1>. DEFINE ctx == LoadContext(files[i])
<1>1. i \in DOMAIN files /\ i \in Nat
  BY DEF LoadFile, TypeOK
<1>2. /\ ctx \in Context /\ Length(ctx) = SectionLength(files[i])
      /\ SectionLength(files[i]) \in [Contents -> Nat]
  BY <1>1, FileGiven, LoadedWhole
<1>3. /\ context' = Append(context, ctx) /\ Len(context) = i - 1
      /\ total' = [s \in Contents |-> total[s] + Length(ctx)[s]]
  BY DEF LoadFile, TypeOK
<1>. HIDE DEF ctx
<1>4. total' \in [Contents -> Nat]
  BY <1>2, <1>3 DEF TypeOK
<1>5. context' \in Seq(Context) /\ Len(context') = i
  BY <1>1, <1>2, <1>3 DEF Loaded
<1>6. \A f \in DOMAIN context' : context'[f] = LoadContext(files[f])
  BY <1>1, <1>2, <1>3 DEF Loaded, ctx
<1>7. i' \in 1 .. Len(files) + 1 /\ i' - 1 = i
  <2>1. i' = i + 1 /\ i <= Len(files)
    BY DEF LoadFile
  <2>2. i \in 1 .. Len(files) + 1 /\ Len(files) \in Nat
    BY DEF TypeOK
  <2>. QED
    BY <2>1, <2>2
<1>8. TypeOK'
  BY <1>4, <1>5, <1>7 DEF LoadFile, TypeOK
<1>9. Loaded'
  BY <1>5, <1>6, <1>7 DEF LoadFile, Loaded
<1>. QED
  BY <1>8, <1>9

LEMMA AllocateTyped == ASSUME TypeOK, Loaded, Allocate PROVE TypeOK' /\ Loaded'
<1>1. allocated' \in [Contents -> Nat]
  <2>1. total \in [Contents -> Nat]
    BY DEF TypeOK
  <2>2. "text" \in Contents /\ "bss" \in Contents
    BY DEF Contents
  <2>3. total["text"] + InstructionSize \in Nat
    BY <2>1, <2>2 DEF InstructionSize
  <2>4. allocated' = [total EXCEPT !["text"] = total["text"] + InstructionSize, !["bss"] = 0]
    BY DEF Allocate
  <2>. QED
    BY <2>1, <2>2, <2>3, <2>4
<1>2. Len(context) = Len(files) /\ i' \in 1 .. Len(files) + 1
  BY DEF Allocate, TypeOK
<1>. QED
  BY <1>1, <1>2 DEF Allocate, TypeOK, Loaded

LEMMA MergeFileTyped == ASSUME TypeOK, Loaded, MergeFile PROVE TypeOK' /\ Loaded'
<1>. DEFINE own == Own(i)
            moved == [n \in DOMAIN own |-> MovedSymbol(own[n], section_offset)]
            relocs == context[i].reloctable
            counted == symbol_offset + Len(own)
            rebased == [n \in DOMAIN relocs |->
                          MovedRelocation(relocs[n], i, counted, section_offset)]
            added == [s \in Contents |->
                        Pieces(i, s, section_offset[s], Length(context[i])[s])]
<1>1. phase = "merge" /\ i <= Len(files) /\ i \in Nat
  BY DEF MergeFile, TypeOK
<1>2. /\ own \in Seq(Symbol(Names)) /\ relocs \in Seq(Relocation)
      /\ OwnSymbols(context[i].symtable) = own
      /\ Length(context[i]) \in [Contents -> Nat]
      /\ section_offset \in [Contents -> Nat]
  BY <1>1, ContextGiven DEF TypeOK
<1>3. /\ symtable' = symtable \o moved
      /\ symbol_offset' = counted
      /\ reloctable' = reloctable \o rebased
      /\ sections' = [s \in Contents |-> sections[s] \o added[s]]
      /\ section_offset' = [s \in Contents |-> EndOf(added[s], section_offset[s])]
  BY <1>2 DEF MergeFile, Merge, AddSymbolsForce
<1>4. moved \in Seq(Symbol(Names)) /\ Len(moved) = Len(own)
  <2>1. \A n \in DOMAIN own : MovedSymbol(own[n], section_offset) \in Symbol(Names)
    BY <1>2, ElementTyped, MovedSymbolTyped
  <2>2. DOMAIN own = 1 .. Len(own) /\ Len(own) \in Nat
    BY <1>2
  <2>. HIDE DEF own
  <2>. QED
    BY <2>1, <2>2
<1>5. rebased \in Seq(Relocation)
  <2>1. counted \in Nat
    BY <1>2 DEF TypeOK
  <2>2. \A n \in DOMAIN relocs :
          MovedRelocation(relocs[n], i, counted, section_offset) \in Relocation
    BY <1>1, <1>2, <2>1, ElementTyped, MovedRelocationTyped
  <2>3. DOMAIN relocs = 1 .. Len(relocs) /\ Len(relocs) \in Nat
    BY <1>2
  <2>. HIDE DEF relocs, counted
  <2>. QED
    BY <2>2, <2>3
<1>6. ASSUME NEW s \in Contents
      PROVE  added[s] \in Seq(Piece) /\ EndOf(added[s], section_offset[s]) \in Nat
  <2>1. Length(context[i])[s] \in Nat /\ section_offset[s] \in Nat
    BY <1>2
  <2>. QED
    BY <1>1, <2>1, PiecesTyped
<1>. HIDE DEF own, moved, relocs, counted, rebased, added
<1>7. symtable' \in Seq(Symbol(Names)) /\ Len(symtable') = Len(symtable) + Len(own)
  <2>1. symtable \in Seq(Symbol(Names))
    BY DEF TypeOK
  <2>2. symtable \o moved \in Seq(Symbol(Names)) /\ Len(symtable \o moved) = Len(symtable) + Len(moved)
    BY <1>4, <2>1
  <2>. QED
    BY <1>3, <1>4, <2>2
<1>8. reloctable' \in Seq(Relocation)
  BY <1>3, <1>5 DEF TypeOK
<1>9. sections' \in [Contents -> Seq(Piece)] /\ section_offset' \in [Contents -> Nat]
  <2>1. ASSUME NEW s \in Contents PROVE sections[s] \o added[s] \in Seq(Piece)
    BY <1>6 DEF TypeOK
  <2>. QED
    BY <1>3, <1>6, <2>1
<1>10. symbol_offset' = Len(symtable')
  BY <1>3, <1>7 DEF TypeOK, counted
<1>11. i' \in 1 .. Len(files) + 1 /\ current \in 1 .. Len(symtable') + 1
  <2>1. Len(own) \in Nat /\ Len(symtable) \in Nat
    BY <1>2 DEF TypeOK
  <2>. QED
    BY <1>1, <1>7, <2>1 DEF MergeFile, TypeOK
<1>. QED
  BY <1>7, <1>8, <1>9, <1>10, <1>11 DEF MergeFile, TypeOK, Loaded

LEMMA PropagateTyped ==
    ASSUME NEW table \in Seq(Symbol(Names)), NEW symbol \in Symbol(Names)
    PROVE  /\ Propagate(table, symbol) \in Seq(Symbol(Names))
           /\ Len(Propagate(table, symbol)) = Len(table)
<1>1. ASSUME NEW k \in DOMAIN table
      PROVE  [symbol EXCEPT !.name = table[k].name, !.scope = table[k].scope] \in Symbol(Names)
  <2>1. table[k] \in Symbol(Names)
    BY ElementTyped
  <2>. QED
    BY <2>1 DEF Symbol
<1>2. ASSUME NEW k \in DOMAIN table PROVE Propagate(table, symbol)[k] \in Symbol(Names)
  <2>1. Propagate(table, symbol)[k] \in
          {table[k], [symbol EXCEPT !.name = table[k].name, !.scope = table[k].scope]}
    BY DEF Propagate
  <2>. QED
    BY <1>1, <2>1, ElementTyped
<1>3. DOMAIN Propagate(table, symbol) = 1 .. Len(table) /\ Len(table) \in Nat
  BY DEF Propagate
<1>4. Propagate(table, symbol) = [k \in 1 .. Len(table) |-> Propagate(table, symbol)[k]]
  BY DEF Propagate
<1>. QED
  BY <1>2, <1>3, <1>4

LEMMA ResolveSymbolTyped == ASSUME TypeOK, Loaded, ResolveSymbol PROVE TypeOK' /\ Loaded'
<1>1. current \in DOMAIN symtable /\ current + 1 \in 1 .. Len(symtable) + 1
  BY DEF ResolveSymbol, AtSymbol, TypeOK
<1>2. symtable[current] \in Symbol(Names)
  BY <1>1, ElementTyped DEF TypeOK
<1>3. symtable' \in Seq(Symbol(Names)) /\ Len(symtable') = Len(symtable)
  BY <1>2, PropagateTyped DEF ResolveSymbol, TypeOK
<1>. QED
  BY <1>1, <1>3 DEF ResolveSymbol, AtSymbol, TypeOK, Loaded

LEMMA NextTyped == TypeOK /\ Loaded /\ [Next]_vars => TypeOK' /\ Loaded'
<1>. SUFFICES ASSUME TypeOK, Loaded, [Next]_vars PROVE TypeOK' /\ Loaded'
  OBVIOUS
<1>1. CASE LoadFile
  BY <1>1, LoadFileTyped
<1>2. CASE Allocate
  BY <1>2, AllocateTyped
<1>3. CASE MergeFile
  BY <1>3, MergeFileTyped
<1>4. CASE CrashInMerge
  BY <1>4 DEF CrashInMerge, TypeOK, Loaded
<1>5. CASE EndMerge
  BY <1>5 DEF EndMerge, TypeOK, Loaded
<1>6. CASE PassOverSymbol
  <2>1. current + 1 \in 1 .. Len(symtable) + 1
    BY <1>6 DEF PassOverSymbol, AtSymbol, TypeOK
  <2>. QED
    BY <1>6, <2>1 DEF PassOverSymbol, AtSymbol, TypeOK, Loaded
<1>7. CASE ResolveSymbol
  BY <1>7, ResolveSymbolTyped
<1>8. CASE RejectConflict
  BY <1>8 DEF RejectConflict, AtSymbol, TypeOK, Loaded
<1>9. CASE EndResolve
  BY <1>9 DEF EndResolve, TypeOK, Loaded
<1>10. CASE UNCHANGED vars
  BY <1>10 DEF vars, TypeOK, Loaded
<1>. QED
  BY <1>1, <1>2, <1>3, <1>4, <1>5, <1>6, <1>7, <1>8, <1>9, <1>10 DEF Next, Exited

\* The linker's variables keep their types for every list of objects that nas
\* can have written, and each context is the whole of its file.
THEOREM TypeCorrect == Spec => [](TypeOK /\ Loaded)
<1>. QED
  BY InitTyped, NextTyped, PTL DEF Spec

-----------------------------------------------------------------------------
(* Sections.  Where a section of a file goes is known before the merge:    *)
(* behind those of the files before it and, in the text, behind the end    *)
(* instruction.  The counters of the merge are always there.               *)

LengthsOf(given, s) == [f \in DOMAIN given |-> SectionLength(given[f])[s]]
Before(given, f, s) == CountBefore(f, LengthsOf(given, s))
Extra(given, f, s) ==
    IF s = "text" /\ f > 1 /\ LengthsOf(given, s)[1] > 0 THEN InstructionSize ELSE 0
Place(given, f, s) == Before(given, f, s) + Extra(given, f, s)

\* While files are loaded their lengths add up to what is then allocated.
Summed ==
    \A s \in Contents :
        /\ phase = "load" => total[s] = Before(files, i, s)
        /\ phase # "load" =>
              /\ total[s] = Before(files, Len(files) + 1, s)
              /\ allocated["text"] = total["text"] + InstructionSize
              /\ allocated["data"] = total["data"]

\* The pieces of a merged section before file m is merged.
PieceLaid(given, s, m, piece) ==
    IF piece.file = 0
    THEN m > 1 /\ piece.size = InstructionSize
    ELSE /\ piece.file \in 1 .. m - 1
         /\ piece.at = Place(given, piece.file, s)
         /\ piece.size = LengthsOf(given, s)[piece.file] /\ piece.size > 0

LaidBefore(given, s, m, pieces) ==
    /\ Tiled(pieces, Place(given, m, s))
    /\ \A k \in DOMAIN pieces : PieceLaid(given, s, m, pieces[k])
    /\ \A f \in 1 .. m - 1 : LengthsOf(given, s)[f] > 0 =>
          \E k \in DOMAIN pieces : pieces[k].file = f
    /\ \A j, k \in DOMAIN pieces : pieces[j].file = pieces[k].file => j = k

Laid ==
    \A s \in Contents :
        /\ phase = "load" => sections[s] = << >> /\ section_offset[s] = 0
        /\ phase # "load" =>
              /\ section_offset[s] = Place(files, i, s)
              /\ LaidBefore(files, s, i, sections[s])

LEMMA PlacesTyped ==
    ASSUME NEW given \in Inputs, NEW s \in Contents
    PROVE  /\ Len(given) \in Nat /\ Len(given) > 0 /\ DOMAIN given = 1 .. Len(given)
           /\ LengthsOf(given, s) \in [1 .. Len(given) -> Nat]
           /\ Before(given, 1, s) = 0
           /\ \A f \in 1 .. Len(given) + 1 : Before(given, f, s) \in Nat
           /\ \A f \in 1 .. Len(given) : Before(given, f + 1, s) = Before(given, f, s) + LengthsOf(given, s)[f]
           /\ \A f, g \in 1 .. Len(given) + 1 : f <= g => Before(given, f, s) <= Before(given, g, s)
<1>1. given \in Seq(Image) /\ given # << >>
  BY InputsAssumption
<1>2. Len(given) \in Nat /\ Len(given) > 0 /\ DOMAIN given = 1 .. Len(given)
  BY <1>1
<1>3. LengthsOf(given, s) \in [1 .. Len(given) -> Nat]
  BY <1>2, InputGiven DEF LengthsOf
<1>. QED
  BY <1>2, <1>3, CountBeforeSums, CountBeforeGrows DEF Before

LEMMA ExtraTyped ==
    ASSUME NEW given \in Inputs, NEW s \in Contents, NEW f \in 1 .. Len(given) + 1
    PROVE  Extra(given, f, s) \in Nat /\ Place(given, f, s) \in Nat
<1>1. Extra(given, f, s) \in {0, 4}
  BY DEF Extra, InstructionSize
<1>. QED
  BY <1>1, PlacesTyped DEF Place

LEMMA ShortSequences ==
    ASSUME NEW a, NEW b
    PROVE  <<a>> \o << >> = <<a>> /\ <<a>> \o <<b>> = <<a, b>>
<1>1. <<a>> \in Seq({a, b}) /\ <<b>> \in Seq({a, b}) /\ << >> \in Seq({a, b})
  OBVIOUS
<1>2. <<a>> \o << >> = <<a>>
  BY <1>1
<1>3. <<a>> \o <<b>> = <<a, b>>
  <2>1. /\ Len(<<a>> \o <<b>>) = 2 /\ <<a>> \o <<b>> \in Seq({a, b})
        /\ (<<a>> \o <<b>>)[1] = a /\ (<<a>> \o <<b>>)[2] = b
    BY <1>1
  <2>2. /\ <<a, b>> \in Seq({a, b}) /\ Len(<<a, b>>) = 2
        /\ <<a, b>>[1] = a /\ <<a, b>>[2] = b
    OBVIOUS
  <2>3. \A k \in 1 .. 2 : k = 1 \/ k = 2
    OBVIOUS
  <2>. QED
    BY <2>1, <2>2, <2>3, SeqEqual
<1>. QED
  BY <1>2, <1>3

LEMMA PiecesOf ==
    ASSUME NEW file, NEW s, NEW at, NEW bytes
    PROVE  LET own == [file |-> file, at |-> at, size |-> bytes]
               end == [file |-> 0, at |-> at + bytes, size |-> InstructionSize]
           IN  /\ bytes = 0 => Pieces(file, s, at, bytes) = << >>
               /\ bytes # 0 /\ s = "text" /\ file = 1 => Pieces(file, s, at, bytes) = <<own, end>>
               /\ bytes # 0 /\ ~(s = "text" /\ file = 1) => Pieces(file, s, at, bytes) = <<own>>
BY ShortSequences, Zenon DEF Pieces

\* The end of the pieces of one file is the place of the next.
LEMMA PlaceNext ==
    ASSUME NEW given \in Inputs, NEW s \in Contents, NEW f \in 1 .. Len(given)
    PROVE  EndOf(Pieces(f, s, Place(given, f, s), LengthsOf(given, s)[f]), Place(given, f, s)) = Place(given, f + 1, s)
<1>. DEFINE at == Place(given, f, s)
            bytes == LengthsOf(given, s)[f]
            own == [file |-> f, at |-> at, size |-> bytes]
            end == [file |-> 0, at |-> at + bytes, size |-> InstructionSize]
<1>1. /\ Before(given, f + 1, s) = Before(given, f, s) + bytes
      /\ at = Before(given, f, s) + Extra(given, f, s) /\ Place(given, f + 1, s) = Before(given, f + 1, s) + Extra(given, f + 1, s)
      /\ Before(given, f, s) \in Nat /\ bytes \in Nat /\ Extra(given, f, s) \in Nat /\ at \in Nat
  <2>1. f \in 1 .. Len(given) + 1
    BY PlacesTyped
  <2>. QED
    BY <2>1, PlacesTyped, ExtraTyped DEF Place
<1>2. Extra(given, f + 1, s) =
        Extra(given, f, s) + (IF s = "text" /\ f = 1 /\ bytes > 0 THEN InstructionSize ELSE 0)
  BY DEF Extra, InstructionSize
<1>3. CASE bytes = 0
  <2>1. Pieces(f, s, at, bytes) = << >>
    BY <1>3, PiecesOf
  <2>2. EndOf(Pieces(f, s, at, bytes), at) = at
    BY <2>1 DEF EndOf
  <2>3. at = Place(given, f + 1, s)
    <3>1. Extra(given, f + 1, s) = Extra(given, f, s) + 0
      BY <1>2, <1>3
    <3>. QED
      BY <1>1, <1>3, <3>1
  <2>. QED
    BY <2>2, <2>3
<1>4. CASE bytes # 0 /\ s = "text" /\ f = 1
  <2>1. Pieces(f, s, at, bytes) = <<own, end>>
    BY <1>4, PiecesOf
  <2>2. EndOf(<<own, end>>, at) = end.at + end.size
    BY DEF EndOf
  <2>3. Place(given, f + 1, s) = (at + bytes) + InstructionSize
    <3>1. Extra(given, f + 1, s) = Extra(given, f, s) + InstructionSize /\ InstructionSize \in Nat
      BY <1>1, <1>2, <1>4 DEF InstructionSize
    <3>. HIDE DEF at, bytes
    <3>. QED
      BY <1>1, <3>1
  <2>. QED
    BY <2>1, <2>2, <2>3
<1>5. CASE bytes # 0 /\ ~(s = "text" /\ f = 1)
  <2>1. Pieces(f, s, at, bytes) = <<own>>
    BY <1>5, PiecesOf
  <2>2. EndOf(<<own>>, at) = own.at + own.size
    BY DEF EndOf
  <2>3. Place(given, f + 1, s) = at + bytes
    <3>1. Extra(given, f + 1, s) = Extra(given, f, s) + 0
      BY <1>2, <1>5
    <3>. QED
      BY <1>1, <3>1
  <2>. QED
    BY <2>1, <2>2, <2>3
<1>. QED
  BY <1>3, <1>4, <1>5
LEMMA TiledAppended ==
    ASSUME NEW pieces \in Seq(Piece), NEW piece \in Piece, Tiled(pieces, piece.at)
    PROVE  Tiled(Append(pieces, piece), piece.at + piece.size)
<1>. DEFINE more == Append(pieces, piece)
<1>1. /\ Len(more) = Len(pieces) + 1 /\ DOMAIN more = 1 .. Len(pieces) + 1
      /\ Len(pieces) \in Nat /\ DOMAIN pieces = 1 .. Len(pieces)
      /\ \A k \in 1 .. Len(pieces) : more[k] = pieces[k]
      /\ more[Len(pieces) + 1] = piece /\ more # << >>
  OBVIOUS
<1>. HIDE DEF more
<1>2. ASSUME NEW k \in DOMAIN more
      PROVE  more[k].at = IF k = 1 THEN 0 ELSE more[k - 1].at + more[k - 1].size
  <2>1. CASE k \in 1 .. Len(pieces)
    <3>1. pieces[k].at = IF k = 1 THEN 0 ELSE pieces[k - 1].at + pieces[k - 1].size
      BY <1>1, <2>1 DEF Tiled
    <3>2. k # 1 => k - 1 \in 1 .. Len(pieces)
      BY <2>1
    <3>. QED
      BY <1>1, <2>1, <3>1, <3>2
  <2>2. CASE k = Len(pieces) + 1
    <3>1. k = 1 <=> pieces = << >>
      BY <1>1, <2>2
    <3>2. piece.at = IF k = 1 THEN 0 ELSE pieces[Len(pieces)].at + pieces[Len(pieces)].size
      BY <3>1 DEF Tiled
    <3>3. k # 1 => k - 1 = Len(pieces) /\ Len(pieces) \in 1 .. Len(pieces)
      BY <1>1, <2>2
    <3>. QED
      BY <1>1, <2>2, <3>2, <3>3
  <2>. QED
    BY <1>1, <2>1, <2>2
<1>. QED
  BY <1>1, <1>2 DEF Tiled

\* The pieces of a section, each where its file says and none from the same
\* file as another.
AllLaid(given, s, m, pieces) ==
    /\ \A k \in DOMAIN pieces : PieceLaid(given, s, m, pieces[k])
    /\ \A j, k \in DOMAIN pieces : pieces[j].file = pieces[k].file => j = k

LEMMA PieceAdded ==
    ASSUME NEW given, NEW s, NEW m, NEW pieces \in Seq(Piece), NEW piece \in Piece,
           AllLaid(given, s, m, pieces), PieceLaid(given, s, m, piece),
           \A k \in DOMAIN pieces : pieces[k].file # piece.file
    PROVE  /\ AllLaid(given, s, m, Append(pieces, piece))
           /\ \A k \in DOMAIN pieces :
                 k \in DOMAIN Append(pieces, piece) /\ Append(pieces, piece)[k] = pieces[k]
           /\ \E k \in DOMAIN Append(pieces, piece) : Append(pieces, piece)[k].file = piece.file
           /\ \A k \in DOMAIN Append(pieces, piece) :
                 k \in DOMAIN pieces \/ Append(pieces, piece)[k] = piece
<1>. DEFINE more == Append(pieces, piece)
<1>1. /\ DOMAIN more = 1 .. Len(pieces) + 1
      /\ Len(pieces) \in Nat /\ DOMAIN pieces = 1 .. Len(pieces)
      /\ \A k \in 1 .. Len(pieces) : more[k] = pieces[k]
      /\ more[Len(pieces) + 1] = piece
  OBVIOUS
<1>. HIDE DEF more
<1>2. \A k \in DOMAIN pieces : k \in DOMAIN more /\ more[k] = pieces[k]
  BY <1>1
<1>3. \A k \in DOMAIN more : k \in DOMAIN pieces \/ (k = Len(pieces) + 1 /\ more[k] = piece)
  BY <1>1
<1>4. Len(pieces) + 1 \in DOMAIN more /\ more[Len(pieces) + 1].file = piece.file
  BY <1>1
<1>5. \A k \in DOMAIN more : PieceLaid(given, s, m, more[k])
  BY <1>2, <1>3 DEF AllLaid
<1>6. \A j, k \in DOMAIN more : more[j].file = more[k].file => j = k
  <2>. SUFFICES ASSUME NEW j \in DOMAIN more, NEW k \in DOMAIN more,
                       more[j].file = more[k].file
                PROVE  j = k
    OBVIOUS
  <2>1. CASE j \in DOMAIN pieces /\ k \in DOMAIN pieces
    BY <1>2, <2>1 DEF AllLaid
  <2>2. CASE j \notin DOMAIN pieces /\ k \notin DOMAIN pieces
    BY <1>3, <2>2
  <2>3. CASE j \in DOMAIN pieces /\ k \notin DOMAIN pieces
    BY <1>2, <1>3, <2>3
  <2>4. CASE j \notin DOMAIN pieces /\ k \in DOMAIN pieces
    BY <1>2, <1>3, <2>4
  <2>. QED
    BY <2>1, <2>2, <2>3, <2>4
<1>. QED
  BY <1>2, <1>3, <1>4, <1>5, <1>6 DEF AllLaid, more

\* One more file merged: the section stays an unbroken row of whole pieces,
\* and ends where the next file goes.
LEMMA LaidNext ==
    ASSUME NEW given \in Inputs, NEW s \in Contents, NEW m \in 1 .. Len(given),
           NEW pieces \in Seq(Piece), LaidBefore(given, s, m, pieces)
    PROVE  LaidBefore(given, s, m + 1,
                      pieces \o Pieces(m, s, Place(given, m, s), LengthsOf(given, s)[m]))
<1>. DEFINE at == Place(given, m, s)
            bytes == LengthsOf(given, s)[m]
            own == [file |-> m, at |-> at, size |-> bytes]
            end == [file |-> 0, at |-> at + bytes, size |-> InstructionSize]
            more == Append(pieces, own)
<1>1. /\ at \in Nat /\ bytes \in Nat /\ m \in Nat /\ m # 0
      /\ own \in Piece /\ end \in Piece
  <2>1. m \in 1 .. Len(given) + 1 /\ m \in Nat /\ m # 0
    BY PlacesTyped
  <2>2. at \in Nat /\ bytes \in Nat
    BY <2>1, PlacesTyped, ExtraTyped
  <2>. QED
    BY <2>1, <2>2 DEF Piece, InstructionSize
<1>2. EndOf(Pieces(m, s, at, bytes), at) = Place(given, m + 1, s)
  BY PlaceNext
<1>3. AllLaid(given, s, m + 1, pieces)
  <2>1. ASSUME NEW k \in DOMAIN pieces PROVE PieceLaid(given, s, m + 1, pieces[k])
    <3>1. PieceLaid(given, s, m, pieces[k])
      BY DEF LaidBefore
    <3>. QED
      BY <1>1, <3>1 DEF PieceLaid
  <2>. QED
    BY <2>1 DEF AllLaid, LaidBefore
<1>4. Tiled(pieces, at)
  BY DEF LaidBefore
<1>5. \A f \in 1 .. m : f \in 1 .. m - 1 \/ f = m
  BY <1>1
<1>6. 1 .. (m + 1) - 1 = 1 .. m
  BY <1>1
<1>. HIDE DEF at, bytes
<1>7. CASE bytes = 0
  <2>1. Pieces(m, s, at, bytes) = << >>
    BY <1>7, PiecesOf
  <2>2. pieces \o << >> = pieces /\ Place(given, m + 1, s) = at
    BY <1>2, <2>1 DEF EndOf
  <2>3. \A f \in 1 .. m : LengthsOf(given, s)[f] > 0 =>
          \E k \in DOMAIN pieces : pieces[k].file = f
    BY <1>5, <1>7 DEF LaidBefore, bytes
  <2>4. LaidBefore(given, s, m + 1, pieces)
    BY <1>3, <1>4, <1>6, <2>2, <2>3 DEF LaidBefore, AllLaid
  <2>. QED
    BY <2>1, <2>2, <2>4 DEF at, bytes
<1>8. CASE bytes # 0
  <2>1. \A k \in DOMAIN pieces : pieces[k].file # own.file
    <3>1. \A k \in DOMAIN pieces : PieceLaid(given, s, m, pieces[k])
      BY DEF LaidBefore
    <3>. QED
      BY <1>1, <3>1 DEF PieceLaid
  <2>2. PieceLaid(given, s, m + 1, own)
    BY <1>1, <1>8 DEF PieceLaid, at, bytes
  <2>3. Tiled(more, at + bytes) /\ more \in Seq(Piece)
    BY <1>1, <1>4, TiledAppended
  <2>. HIDE DEF own, end
  <2>4. /\ AllLaid(given, s, m + 1, more)
        /\ \A k \in DOMAIN pieces : k \in DOMAIN more /\ more[k] = pieces[k]
        /\ \E k \in DOMAIN more : more[k].file = own.file
        /\ \A k \in DOMAIN more : k \in DOMAIN pieces \/ more[k] = own
    BY <1>1, <1>3, <2>1, <2>2, PieceAdded
  <2>5. pieces \o <<own>> = more
    BY <1>1
  <2>. HIDE DEF more
  <2>6. own.file = m /\ end.file = 0 /\ end.at = at + bytes /\ end.size = InstructionSize
        /\ own.at = at /\ own.size = bytes
    BY DEF own, end
  <2>7. \A f \in 1 .. m : LengthsOf(given, s)[f] > 0 =>
          \E k \in DOMAIN more : more[k].file = f
    BY <1>5, <2>4, <2>6 DEF LaidBefore
  <2>8. CASE ~(s = "text" /\ m = 1)
    <3>1. Pieces(m, s, at, bytes) = <<own>>
      BY <1>8, <2>8, PiecesOf DEF own
    <3>2. EndOf(<<own>>, at) = at + bytes
      BY <2>6 DEF EndOf
    <3>3. LaidBefore(given, s, m + 1, more)
      BY <1>2, <1>6, <2>3, <2>4, <2>7, <3>1, <3>2 DEF LaidBefore, AllLaid
    <3>. QED
      BY <2>5, <3>1, <3>3 DEF at, bytes
  <2>9. CASE s = "text" /\ m = 1
    <3>1. Pieces(m, s, at, bytes) = <<own, end>>
      BY <1>8, <2>9, PiecesOf DEF own, end
    <3>2. EndOf(<<own, end>>, at) = end.at + end.size
      BY DEF EndOf
    <3>3. PieceLaid(given, s, m + 1, end)
      BY <1>1, <2>6 DEF PieceLaid
    <3>4. \A k \in DOMAIN more : more[k].file # end.file
      <4>1. \A k \in DOMAIN pieces : PieceLaid(given, s, m, pieces[k])
        BY DEF LaidBefore
      <4>2. \A k \in DOMAIN pieces : pieces[k].file # 0
        BY <2>9, <4>1 DEF PieceLaid
      <4>. QED
        BY <1>1, <2>4, <2>6, <4>2
    <3>5. Tiled(Append(more, end), end.at + end.size)
      BY <1>1, <2>3, <2>6, TiledAppended
    <3>6. /\ AllLaid(given, s, m + 1, Append(more, end))
          /\ \A k \in DOMAIN more : k \in DOMAIN Append(more, end) /\ Append(more, end)[k] = more[k]
      BY <1>1, <2>3, <2>4, <3>3, <3>4, PieceAdded
    <3>7. pieces \o <<own, end>> = Append(more, end)
      <4>1. <<own, end>> = <<own>> \o <<end>>
        BY ShortSequences
      <4>2. /\ pieces \in Seq(Piece) /\ <<own>> \in Seq(Piece) /\ <<end>> \in Seq(Piece)
        BY <1>1
      <4>3. pieces \o (<<own>> \o <<end>>) = (pieces \o <<own>>) \o <<end>>
        BY <4>2, ConcatAssociative
      <4>4. more \o <<end>> = Append(more, end)
        BY <1>1, <2>3
      <4>. QED
        BY <2>5, <4>1, <4>3, <4>4
    <3>8. LaidBefore(given, s, m + 1, Append(more, end))
      BY <1>2, <1>6, <2>7, <3>1, <3>2, <3>5, <3>6 DEF LaidBefore, AllLaid
    <3>. QED
      BY <3>1, <3>7, <3>8 DEF at, bytes
  <2>. QED
    BY <2>8, <2>9
<1>. QED
  BY <1>7, <1>8

LEMMA InitLaid == Init => Summed /\ Laid
<1>. SUFFICES ASSUME Init PROVE Summed /\ Laid
  OBVIOUS
<1>1. \A s \in Contents : Before(files, 1, s) = 0
  BY PlacesTyped DEF Init
<1>. QED
  BY <1>1 DEF Init, Summed, Laid

LEMMA LoadFileLaid == ASSUME TypeOK, Loaded, Summed, Laid, LoadFile PROVE Summed' /\ Laid'
<1>1. /\ phase = "load" /\ phase' = "load" /\ i \in 1 .. Len(files) /\ i' = i + 1
      /\ files' = files /\ files \in Inputs
      /\ sections' = sections /\ section_offset' = section_offset
      /\ total' = [s \in Contents |-> total[s] + Length(LoadContext(files[i]))[s]]
  BY DEF LoadFile, TypeOK, Loaded
<1>2. ASSUME NEW s \in Contents PROVE total'[s] = Before(files, i + 1, s)
  <2>1. i \in DOMAIN files
    BY <1>1, PlacesTyped
  <2>2. Length(LoadContext(files[i]))[s] = LengthsOf(files, s)[i]
    BY <2>1, FileGiven, LoadedWhole DEF LengthsOf
  <2>3. Before(files, i + 1, s) = Before(files, i, s) + LengthsOf(files, s)[i]
    BY <1>1, PlacesTyped
  <2>4. total[s] = Before(files, i, s)
    BY <1>1 DEF Summed
  <2>. QED
    BY <1>1, <2>2, <2>3, <2>4
<1>3. Summed'
  BY <1>1, <1>2 DEF Summed
<1>4. Laid'
  BY <1>1 DEF Laid
<1>. QED
  BY <1>3, <1>4

LEMMA AllocateLaid == ASSUME TypeOK, Loaded, Summed, Laid, Allocate PROVE Summed' /\ Laid'
<1>1. /\ phase = "load" /\ phase' = "merge" /\ i = Len(files) + 1 /\ i' = 1
      /\ files' = files /\ files \in Inputs /\ total' = total
      /\ sections' = sections /\ section_offset' = section_offset
      /\ allocated' = [total EXCEPT !["text"] = total["text"] + InstructionSize, !["bss"] = 0]
      /\ total \in [Contents -> Nat]
  <2>1. Len(files) \in Nat /\ total \in [Contents -> Nat] /\ i \in 1 .. Len(files) + 1
    BY DEF TypeOK
  <2>2. i = Len(files) + 1
    BY <2>1 DEF Allocate
  <2>. QED
    BY <2>1, <2>2 DEF Allocate, Loaded
<1>2. /\ allocated'["text"] = total["text"] + InstructionSize
      /\ allocated'["data"] = total["data"]
  BY <1>1 DEF Contents
<1>3. Summed'
  BY <1>1, <1>2 DEF Summed
<1>4. ASSUME NEW s \in Contents
      PROVE  section_offset[s] = Place(files, 1, s) /\ LaidBefore(files, s, 1, sections[s])
  <2>1. sections[s] = << >> /\ section_offset[s] = 0
    BY <1>1 DEF Laid
  <2>2. Place(files, 1, s) = 0
    BY <1>1, PlacesTyped DEF Place, Extra
  <2>. QED
    BY <2>1, <2>2 DEF LaidBefore, Tiled
<1>5. Laid'
  BY <1>1, <1>4 DEF Laid
<1>. QED
  BY <1>3, <1>5

LEMMA MergeFileLaid == ASSUME TypeOK, Loaded, Summed, Laid, MergeFile PROVE Summed' /\ Laid'
<1>1. /\ phase = "merge" /\ phase' = "merge" /\ i \in 1 .. Len(files) /\ i' = i + 1
      /\ files' = files /\ files \in Inputs /\ total' = total /\ allocated' = allocated
  BY DEF MergeFile, TypeOK, Loaded
<1>2. Summed'
  BY <1>1 DEF Summed
<1>3. ASSUME NEW s \in Contents
      PROVE  /\ section_offset'[s] = Place(files, i + 1, s)
             /\ LaidBefore(files, s, i + 1, sections'[s])
  <2>. DEFINE added == Pieces(i, s, section_offset[s], Length(context[i])[s])
  <2>1. section_offset[s] = Place(files, i, s) /\ LaidBefore(files, s, i, sections[s])
    BY <1>1 DEF Laid
  <2>2. Length(context[i])[s] = LengthsOf(files, s)[i]
    BY <1>1, ContextGiven DEF LengthsOf
  <2>3. sections'[s] = sections[s] \o added /\ section_offset'[s] = EndOf(added, section_offset[s])
    BY DEF MergeFile, Merge
  <2>4. sections[s] \in Seq(Piece)
    BY DEF TypeOK
  <2>5. added = Pieces(i, s, Place(files, i, s), LengthsOf(files, s)[i])
    BY <2>1, <2>2
  <2>. HIDE DEF added
  <2>6. section_offset'[s] = Place(files, i + 1, s)
    BY <1>1, <2>1, <2>3, <2>5, PlaceNext
  <2>7. LaidBefore(files, s, i + 1, sections[s] \o added)
    BY <1>1, <2>1, <2>4, <2>5, LaidNext
  <2>. QED
    BY <2>3, <2>6, <2>7
<1>4. Laid'
  BY <1>1, <1>3 DEF Laid
<1>. QED
  BY <1>2, <1>4

LEMMA NextLaid == TypeOK /\ Loaded /\ Summed /\ Laid /\ [Next]_vars => Summed' /\ Laid'
<1>. SUFFICES ASSUME TypeOK, Loaded, Summed, Laid, [Next]_vars PROVE Summed' /\ Laid'
  OBVIOUS
<1>1. CASE LoadFile
  BY <1>1, LoadFileLaid
<1>2. CASE Allocate
  BY <1>2, AllocateLaid
<1>3. CASE MergeFile
  BY <1>3, MergeFileLaid
<1>4. CASE /\ phase # "load" /\ phase' # "load"
           /\ UNCHANGED <<files, i, total, allocated, sections, section_offset>>
  BY <1>4 DEF Summed, Laid
<1>5. CASE UNCHANGED vars
  BY <1>5 DEF vars, Summed, Laid
<1>6. CASE CrashInMerge \/ EndMerge
  BY <1>4, <1>6 DEF CrashInMerge, EndMerge
<1>7. CASE PassOverSymbol \/ ResolveSymbol \/ RejectConflict \/ EndResolve
  BY <1>4, <1>7 DEF PassOverSymbol, ResolveSymbol, RejectConflict, EndResolve, AtSymbol
<1>. QED
  BY <1>1, <1>2, <1>3, <1>5, <1>6, <1>7 DEF Next, Exited

LEMMA LaidFits == TypeOK /\ Loaded /\ Summed /\ Laid => SectionsFit
<1>. SUFFICES ASSUME TypeOK, Loaded, Summed, Laid, NEW s \in Contents
              PROVE
                 LET filled == {f \in Merged : SectionLength(files[f])[s] > 0}
                     Size(f) == IF f = 0 THEN InstructionSize ELSE SectionLength(files[f])[s]
                 IN  /\ Tiled(sections[s], section_offset[s])
                     /\ s # "bss" => section_offset[s] <= allocated[s]
                     /\ \A k \in DOMAIN sections[s] :
                           sections[s][k].size = Size(sections[s][k].file)
                     /\ {sections[s][k].file : k \in DOMAIN sections[s]} \ {0} = filled
                     /\ \A j, k \in DOMAIN sections[s] :
                           sections[s][j].file = sections[s][k].file => j = k
  BY DEF SectionsFit
<1>a. /\ files \in Inputs /\ i \in 1 .. Len(files) + 1 /\ Len(files) \in Nat
      /\ allocated \in [Contents -> Nat] /\ DOMAIN files = 1 .. Len(files)
  BY PlacesTyped DEF TypeOK, Loaded
<1>1. CASE phase = "load"
  <2>1. sections[s] = << >> /\ section_offset[s] = 0 /\ allocated[s] >= 0 /\ Merged = {}
    BY <1>a, <1>1 DEF Laid, Merged
  <2>. QED
    BY <2>1 DEF Tiled
<1>2. CASE phase # "load"
  <2>1. section_offset[s] = Place(files, i, s) /\ LaidBefore(files, s, i, sections[s])
    BY <1>2 DEF Laid
  <2>2. Merged = 1 .. i - 1 /\ Merged \subseteq DOMAIN files
    BY <1>a, <1>2 DEF Merged
  <2>3. \A f \in Merged : LengthsOf(files, s)[f] = SectionLength(files[f])[s]
    BY <2>2 DEF LengthsOf
  <2>4. s # "bss" => section_offset[s] <= allocated[s]
    <3>1. Before(files, i, s) <= Before(files, Len(files) + 1, s)
      BY <1>a, PlacesTyped
    <3>2. Before(files, i, s) \in Nat /\ Before(files, Len(files) + 1, s) \in Nat
      BY <1>a, PlacesTyped
    <3>3. Extra(files, i, s) \in {0, IF s = "text" THEN InstructionSize ELSE 0}
      BY DEF Extra
    <3>4. s # "bss" => allocated[s] = Before(files, Len(files) + 1, s) +
                                      (IF s = "text" THEN InstructionSize ELSE 0)
      BY <1>2, <3>2 DEF Summed, Contents
    <3>. QED
      BY <2>1, <3>1, <3>2, <3>3, <3>4 DEF Place, InstructionSize
  <2>5. \A k \in DOMAIN sections[s] : PieceLaid(files, s, i, sections[s][k])
    BY <2>1 DEF LaidBefore
  <2>6. \A k \in DOMAIN sections[s] :
          IF sections[s][k].file = 0 THEN sections[s][k].size = InstructionSize
          ELSE /\ sections[s][k].file \in Merged
               /\ sections[s][k].size = SectionLength(files[sections[s][k].file])[s]
               /\ SectionLength(files[sections[s][k].file])[s] > 0
    BY <2>2, <2>3, <2>5 DEF PieceLaid
  <2>7. \A f \in Merged : SectionLength(files[f])[s] > 0 =>
          f # 0 /\ \E k \in DOMAIN sections[s] : sections[s][k].file = f
    BY <2>1, <2>2, <2>3 DEF LaidBefore
  <2>8. {sections[s][k].file : k \in DOMAIN sections[s]} \ {0}
          = {f \in Merged : SectionLength(files[f])[s] > 0}
    BY <2>6, <2>7
  <2>. QED
    BY <2>1, <2>4, <2>6, <2>8 DEF LaidBefore
<1>. QED
  BY <1>1, <1>2

\* Every copy of the merge lies behind the one before it and within what was
\* allocated, whatever files are linked.
THEOREM SectionsFitAlways == Spec => []SectionsFit
<1>1. Init => TypeOK /\ Loaded /\ Summed /\ Laid
  BY InitTyped, InitLaid
<1>2. TypeOK /\ Loaded /\ Summed /\ Laid /\ [Next]_vars =>
        TypeOK' /\ Loaded' /\ Summed' /\ Laid'
  BY NextTyped, NextLaid
<1>. QED
  BY <1>1, <1>2, LaidFits, PTL DEF Spec

-----------------------------------------------------------------------------
(* Symbols.  The merged table is that of the files' own symbols, each moved *)
(* to the place of its section; resolution changes nothing of it but that   *)
(* an import becomes a copy of a definition of its name.                   *)

OwnOf(given, f) == OwnSymbols(given[f].symbols)
OwnCounts(given) == [f \in DOMAIN given |-> Len(OwnOf(given, f))]
Base(given, f) == CountBefore(f, OwnCounts(given))
Places(given, f) == [s \in Contents |-> Place(given, f, s)]
Moved(given, f, n) == MovedSymbol(OwnOf(given, f)[n], Places(given, f))

\* The table before file m is merged.
MergedTable(given, m, table) ==
    /\ Len(table) = Base(given, m)
    /\ \A f \in 1 .. m - 1 : \A n \in DOMAIN OwnOf(given, f) :
          /\ Base(given, f) + n \in DOMAIN table
          /\ table[Base(given, f) + n] = Moved(given, f, n)
    /\ \A k \in DOMAIN table : \E f \in 1 .. m - 1 : \E n \in DOMAIN OwnOf(given, f) :
          k = Base(given, f) + n

\* An entry is what was merged or, for an import, a definition of its name
\* that the walk has passed.
Filled(original, table, c, k) ==
    /\ IsUnresolved(original[k]) /\ original[k].scope = "global"
    /\ \E j \in DOMAIN original :
          /\ j < c
          /\ IsDefinition(original[j])
          /\ original[j].name = original[k].name
          /\ table[k] = original[j]

Settled(table, c) ==
    \A j, k \in DOMAIN table :
        (/\ j < c /\ IsDefinition(table[j])
         /\ table[k].scope = "global" /\ table[k].name = table[j].name)
        => SameDefinition(table[j], table[k])

Resolved(original, table, c) ==
    /\ Len(table) = Len(original)
    /\ \A k \in DOMAIN original : table[k] = original[k] \/ Filled(original, table, c, k)
    /\ Settled(table, c)

Traced ==
    /\ phase = "load" => symtable = << >> /\ current = 1
    /\ phase # "load" =>
          \E original \in Seq(Symbol(Names)) :
              /\ MergedTable(files, i, original)
              /\ Resolved(original, symtable, current)
              /\ phase = "merge" => symtable = original /\ current = 1
    /\ phase \in {"resolve", "linked", "failed"} => i = Len(files) + 1
    /\ phase = "linked" => current > Len(symtable)
    /\ phase = "failed" =>
          /\ current \in DOMAIN symtable
          /\ IsDefinition(symtable[current])
          /\ Conflicts(symtable, symtable[current])

LEMMA BasesTyped ==
    ASSUME NEW given \in Inputs
    PROVE  /\ OwnCounts(given) \in [1 .. Len(given) -> Nat]
           /\ Base(given, 1) = 0
           /\ \A f \in 1 .. Len(given) + 1 : Base(given, f) \in Nat
           /\ \A f \in 1 .. Len(given) :
                 /\ OwnOf(given, f) \in Seq(Symbol(Names))
                 /\ Base(given, f + 1) = Base(given, f) + Len(OwnOf(given, f))
           /\ \A f, g \in 1 .. Len(given) + 1 : f <= g => Base(given, f) <= Base(given, g)
<1>1. Len(given) \in Nat /\ DOMAIN given = 1 .. Len(given)
  <2>1. given \in Seq(Image)
    BY InputsAssumption
  <2>. QED
    BY <2>1
<1>2. ASSUME NEW f \in 1 .. Len(given) PROVE OwnOf(given, f) \in Seq(Symbol(Names))
  BY <1>1, InputGiven DEF OwnOf
<1>3. OwnCounts(given) \in [1 .. Len(given) -> Nat]
  <2>1. \A f \in 1 .. Len(given) : Len(OwnOf(given, f)) \in Nat
    BY <1>2
  <2>. QED
    BY <1>1, <2>1 DEF OwnCounts
<1>4. \A f \in 1 .. Len(given) : OwnCounts(given)[f] = Len(OwnOf(given, f))
  BY <1>1 DEF OwnCounts
<1>. QED
  BY <1>1, <1>2, <1>3, <1>4, CountBeforeSums, CountBeforeGrows DEF Base

LEMMA PlacesAre ==
    ASSUME NEW given \in Inputs, NEW f \in 1 .. Len(given) + 1
    PROVE  Places(given, f) \in [Contents -> Nat]
BY ExtraTyped DEF Places

\* Moving a symbol changes nothing but its offset.
LEMMA MovedKeeps ==
    ASSUME NEW given \in Inputs, NEW f \in 1 .. Len(given), NEW n \in DOMAIN OwnOf(given, f)
    PROVE  LET symbol == OwnOf(given, f)[n]
               moved == Moved(given, f, n)
           IN  /\ symbol \in Symbol(Names) /\ moved \in Symbol(Names)
               /\ moved.name = symbol.name /\ moved.scope = symbol.scope
               /\ moved.section = symbol.section /\ moved.type = symbol.type
               /\ moved.size = symbol.size
               /\ symbol.section # "none" =>
                     /\ symbol.section \in Contents
                     /\ moved.offset = symbol.offset + Place(given, f, symbol.section)
<1>. DEFINE symbol == OwnOf(given, f)[n]
            moved == Moved(given, f, n)
<1>1. symbol \in Symbol(Names)
  BY BasesTyped, ElementTyped
<1>2. Places(given, f) \in [Contents -> Nat]
  <2>1. f \in 1 .. Len(given) + 1
    BY PlacesTyped
  <2>. QED
    BY <2>1, PlacesAre
<1>3. moved \in Symbol(Names)
  BY <1>1, <1>2, MovedSymbolTyped DEF Moved
<1>. HIDE DEF symbol
<1>4. symbol.section \in Contents \/ symbol.section = "none"
  BY <1>1 DEF Symbol, Sections, Contents
<1>5. moved = MovedSymbol(symbol, Places(given, f))
  BY DEF Moved, symbol
<1>6. /\ moved.name = symbol.name /\ moved.scope = symbol.scope
      /\ moved.section = symbol.section /\ moved.type = symbol.type
      /\ moved.size = symbol.size
      /\ symbol.section \in Contents =>
            moved.offset = symbol.offset + Place(given, f, symbol.section)
  <2>1. CASE symbol.section \in Contents
    <3>1. moved = [symbol EXCEPT !.offset = @ + Places(given, f)[symbol.section]]
      BY <1>5, <2>1 DEF MovedSymbol
    <3>2. Places(given, f)[symbol.section] = Place(given, f, symbol.section)
      BY <2>1 DEF Places
    <3>. HIDE DEF moved
    <3>. QED
      BY <1>1, <3>1, <3>2 DEF Symbol
  <2>2. CASE symbol.section \notin Contents
    BY <1>5, <2>2 DEF MovedSymbol
  <2>. QED
    BY <2>1, <2>2
<1>. QED
  BY <1>1, <1>3, <1>4, <1>6 DEF symbol

\* One more file merged: its symbols stand behind those of the files before.
LEMMA TableNext ==
    ASSUME NEW given \in Inputs, NEW m \in 1 .. Len(given),
           NEW table \in Seq(Symbol(Names)), NEW more \in Seq(Symbol(Names)),
           MergedTable(given, m, table),
           Len(more) = Len(OwnOf(given, m)),
           \A n \in DOMAIN OwnOf(given, m) : more[n] = Moved(given, m, n)
    PROVE  MergedTable(given, m + 1, table \o more)
<1>. DEFINE own == OwnOf(given, m)
            joined == table \o more
<1>1. /\ m \in Nat /\ m \in 1 .. Len(given) + 1 /\ 1 .. (m + 1) - 1 = 1 .. m
      /\ \A f \in 1 .. m : f \in 1 .. m - 1 \/ f = m
      /\ \A f \in 1 .. m - 1 : f \in 1 .. m
      /\ m \in 1 .. m
  OBVIOUS
<1>2. /\ Len(table) = Base(given, m) /\ Base(given, m) \in Nat
      /\ Base(given, m + 1) = Base(given, m) + Len(own)
      /\ own \in Seq(Symbol(Names)) /\ Len(own) \in Nat /\ DOMAIN own = 1 .. Len(own)
  <2>1. own \in Seq(Symbol(Names))
    BY BasesTyped
  <2>2. Len(own) \in Nat /\ DOMAIN own = 1 .. Len(own)
    BY <2>1
  <2>. QED
    BY <1>1, <2>1, <2>2, BasesTyped DEF MergedTable
<1>3. /\ Len(joined) = Len(table) + Len(more)
      /\ DOMAIN joined = 1 .. Len(table) + Len(more) /\ DOMAIN table = 1 .. Len(table)
      /\ \A k \in 1 .. Len(table) : joined[k] = table[k]
      /\ \A n \in 1 .. Len(more) : joined[Len(table) + n] = more[n]
      /\ Len(table) \in Nat /\ Len(more) \in Nat
  OBVIOUS
<1>. HIDE DEF own, joined
<1>4. Len(more) = Len(own) /\ \A n \in DOMAIN own : more[n] = Moved(given, m, n)
  BY DEF own
<1>5. ASSUME NEW f \in 1 .. m, NEW n \in DOMAIN OwnOf(given, f)
      PROVE  Base(given, f) + n \in DOMAIN joined /\ joined[Base(given, f) + n] = Moved(given, f, n)
  <2>1. CASE f \in 1 .. m - 1
    <3>1. Base(given, f) + n \in DOMAIN table /\ table[Base(given, f) + n] = Moved(given, f, n)
      BY <2>1 DEF MergedTable
    <3>. QED
      BY <1>3, <3>1
  <2>2. CASE f = m
    <3>1. n \in 1 .. Len(own)
      BY <1>2, <2>2 DEF own
    <3>2. Base(given, f) + n = Len(table) + n /\ Len(table) + n \in DOMAIN joined
      BY <1>2, <1>3, <1>4, <2>2, <3>1
    <3>. QED
      BY <1>2, <1>3, <1>4, <2>2, <3>1, <3>2
  <2>. QED
    BY <1>1, <2>1, <2>2
<1>6. ASSUME NEW k \in DOMAIN joined
      PROVE  \E f \in 1 .. m : \E n \in DOMAIN OwnOf(given, f) : k = Base(given, f) + n
  <2>1. CASE k \in DOMAIN table
    <3>1. PICK f \in 1 .. m - 1 : \E n \in DOMAIN OwnOf(given, f) : k = Base(given, f) + n
      BY <2>1 DEF MergedTable
    <3>. QED
      BY <1>1, <3>1
  <2>2. CASE k \notin DOMAIN table
    <3>1. k - Len(table) \in DOMAIN own /\ k = Base(given, m) + (k - Len(table))
      BY <1>2, <1>3, <1>4, <2>2
    <3>. QED
      BY <1>1, <3>1 DEF own
  <2>. QED
    BY <2>1, <2>2
<1>7. Len(joined) = Base(given, m + 1)
  BY <1>2, <1>3, <1>4
<1>8. MergedTable(given, m + 1, joined)
  BY <1>1, <1>5, <1>6, <1>7 DEF MergedTable
<1>. QED
  BY <1>8 DEF joined

LEMMA InitTraced == Init => Traced
BY DEF Init, Traced

LEMMA AllocateTraced == ASSUME TypeOK, Loaded, Traced, Allocate PROVE Traced'
<1>1. /\ phase = "load" /\ phase' = "merge" /\ i' = 1 /\ files' = files
      /\ symtable' = symtable /\ current' = current /\ files \in Inputs
      /\ symtable = << >> /\ current = 1
  BY DEF Allocate, Traced, Loaded
<1>2. MergedTable(files, 1, << >>)
  BY <1>1, BasesTyped DEF MergedTable
<1>3. Resolved(<< >>, << >>, 1) /\ << >> \in Seq(Symbol(Names))
  BY DEF Resolved, Settled
<1>. QED
  BY <1>1, <1>2, <1>3 DEF Traced

LEMMA MergeFileTraced ==
    ASSUME TypeOK, Loaded, Summed, Laid, Traced, MergeFile, TypeOK'
    PROVE  Traced'
<1>1. /\ phase = "merge" /\ phase' = "merge" /\ i \in 1 .. Len(files) /\ i' = i + 1
      /\ files' = files /\ files \in Inputs /\ current' = current /\ current = 1
      /\ symtable \in Seq(Symbol(Names)) /\ symtable' \in Seq(Symbol(Names))
      /\ i <= Len(files)
  BY DEF MergeFile, TypeOK, Loaded, Traced
<1>2. MergedTable(files, i, symtable)
  BY <1>1 DEF Traced
<1>. DEFINE own == Own(i)
            more == [n \in DOMAIN own |-> MovedSymbol(own[n], section_offset)]
<1>3. /\ own \in Seq(Symbol(Names)) /\ OwnSymbols(context[i].symtable) = own
      /\ own = OwnOf(files, i)
  BY <1>1, ContextGiven DEF Own, OwnOf
<1>4. symtable' = symtable \o more
  BY <1>3 DEF MergeFile, Merge, AddSymbolsForce
<1>5. section_offset = Places(files, i)
  <2>1. \A s \in Contents : section_offset[s] = Place(files, i, s)
    BY <1>1 DEF Laid
  <2>2. section_offset \in [Contents -> Nat]
    BY DEF TypeOK
  <2>. QED
    BY <2>1, <2>2 DEF Places
<1>6. DOMAIN own = 1 .. Len(own) /\ Len(own) \in Nat
  BY <1>3
<1>7. more \in Seq(Symbol(Names)) /\ Len(more) = Len(own)
  <2>1. section_offset \in [Contents -> Nat]
    BY DEF TypeOK
  <2>2. \A n \in DOMAIN own : MovedSymbol(own[n], section_offset) \in Symbol(Names)
    BY <1>3, <2>1, ElementTyped, MovedSymbolTyped
  <2>. HIDE DEF own
  <2>. QED
    BY <1>6, <2>2
<1>8. \A n \in DOMAIN OwnOf(files, i) : more[n] = Moved(files, i, n)
  BY <1>3, <1>5 DEF Moved
<1>. HIDE DEF own, more
<1>9. MergedTable(files, i + 1, symtable')
  BY <1>1, <1>2, <1>3, <1>4, <1>7, <1>8, TableNext
<1>10. Resolved(symtable', symtable', 1)
  <2>1. \A k \in DOMAIN symtable' : k \in Nat /\ ~(k < 1)
    BY <1>1
  <2>. QED
    BY <2>1 DEF Resolved, Settled
<1>. QED
  BY <1>1, <1>9, <1>10 DEF Traced

\* What one definition's walk over the table leaves of an entry: itself, or
\* a copy of the definition if it was an unresolved namesake.
LEMMA PropagateEntry ==
    ASSUME NEW table \in Seq(Symbol(Names)), NEW c \in DOMAIN table, IsDefinition(table[c]),
           NEW k \in DOMAIN table
    PROVE  LET after == Propagate(table, table[c])
           IN  /\ k \in DOMAIN after
               /\ after[k].name = table[k].name /\ after[k].scope = table[k].scope
               /\ k \in Namesakes(table, table[c]) /\ IsUnresolved(table[k]) => after[k] = table[c]
               /\ ~(k \in Namesakes(table, table[c]) /\ IsUnresolved(table[k])) => after[k] = table[k]
<1>. DEFINE d == table[c]
            after == Propagate(table, d)
<1>1. d \in Symbol(Names) /\ d.scope = "global" /\ k \in DOMAIN after
  BY ElementTyped DEF IsDefinition, Propagate
<1>2. CASE k \in Namesakes(table, d) /\ IsUnresolved(table[k])
  <2>1. table[k].name = d.name /\ table[k].scope = d.scope
    BY <1>1, <1>2 DEF Namesakes
  <2>2. after[k] = [d EXCEPT !.name = table[k].name, !.scope = table[k].scope]
    BY <1>2 DEF Propagate
  <2>. HIDE DEF d, after
  <2>3. [d EXCEPT !.name = table[k].name, !.scope = table[k].scope] = d
    BY <1>1, <2>1 DEF Symbol
  <2>4. after[k] = d
    BY <2>2, <2>3
  <2>. QED
    BY <1>1, <1>2, <2>1, <2>4 DEF d, after
<1>3. CASE ~(k \in Namesakes(table, d) /\ IsUnresolved(table[k]))
  <2>1. after[k] = table[k]
    BY <1>3 DEF Propagate
  <2>. QED
    BY <1>1, <1>3, <2>1
<1>. QED
  BY <1>2, <1>3

LEMMA ResolvedNext ==
    ASSUME NEW original \in Seq(Symbol(Names)), NEW table \in Seq(Symbol(Names)),
           NEW c \in DOMAIN table, Resolved(original, table, c),
           IsDefinition(table[c]), ~Conflicts(table, table[c])
    PROVE  Resolved(original, Propagate(table, table[c]), c + 1)
<1>. DEFINE d == table[c]
            after == Propagate(table, d)
<1>1. /\ DOMAIN table = 1 .. Len(table) /\ DOMAIN original = 1 .. Len(table)
      /\ Len(table) = Len(original) /\ Len(table) \in Nat
      /\ after \in Seq(Symbol(Names)) /\ Len(after) = Len(table)
      /\ DOMAIN after = 1 .. Len(table)
      /\ c \in Nat
  <2>1. d \in Symbol(Names)
    BY ElementTyped
  <2>2. after \in Seq(Symbol(Names)) /\ Len(after) = Len(table)
    BY <2>1, PropagateTyped
  <2>. HIDE DEF after
  <2>. QED
    BY <2>2 DEF Resolved
<1>2. \A k \in DOMAIN table :
        /\ after[k].name = table[k].name /\ after[k].scope = table[k].scope
        /\ k \in Namesakes(table, d) /\ IsUnresolved(table[k]) => after[k] = d
        /\ ~(k \in Namesakes(table, d) /\ IsUnresolved(table[k])) => after[k] = table[k]
  BY PropagateEntry
<1>3. \A k \in DOMAIN table : table[k] = original[k] \/ Filled(original, table, c, k)
  BY <1>1 DEF Resolved
<1>. HIDE DEF after
<1>4. \E j \in DOMAIN original : j < c + 1 /\ IsDefinition(original[j]) /\ d = original[j]
  <2>1. CASE d = original[c]
    BY <1>1, <2>1
  <2>2. CASE Filled(original, table, c, c)
    <3>1. PICK j \in DOMAIN original : j < c /\ IsDefinition(original[j]) /\ d = original[j]
      BY <2>2 DEF Filled
    <3>2. j < c + 1
      BY <1>1, <3>1
    <3>. QED
      BY <3>1, <3>2
  <2>. QED
    BY <1>3, <2>1, <2>2
<1>5. ASSUME NEW k \in DOMAIN original
      PROVE  after[k] = original[k] \/ Filled(original, after, c + 1, k)
  <2>0. k \in DOMAIN table
    BY <1>1
  <2>1. CASE k \in Namesakes(table, d) /\ IsUnresolved(table[k])
    <3>1. after[k] = d /\ table[k].name = d.name /\ table[k].scope = "global"
      BY <1>2, <2>0, <2>1 DEF Namesakes
    <3>2. table[k] = original[k]
      <4>1. ~Filled(original, table, c, k)
        BY <2>1 DEF Filled, IsUnresolved, IsDefinition
      <4>. QED
        BY <1>3, <2>0, <4>1
    <3>3. PICK j \in DOMAIN original :
            j < c + 1 /\ IsDefinition(original[j]) /\ d = original[j]
      BY <1>4
    <3>. QED
      BY <2>1, <3>1, <3>2, <3>3 DEF Filled
  <2>2. CASE ~(k \in Namesakes(table, d) /\ IsUnresolved(table[k]))
    <3>1. after[k] = table[k]
      BY <1>2, <2>0, <2>2
    <3>2. CASE table[k] = original[k]
      BY <3>1, <3>2
    <3>3. CASE Filled(original, table, c, k)
      <4>1. PICK j \in DOMAIN original :
              /\ j < c /\ IsDefinition(original[j]) /\ original[j].name = original[k].name
              /\ table[k] = original[j]
        BY <3>3 DEF Filled
      <4>2. j < c + 1
        BY <1>1, <4>1
      <4>. QED
        BY <3>1, <3>3, <4>1, <4>2 DEF Filled
    <3>. QED
      BY <1>3, <2>0, <3>2, <3>3
  <2>. QED
    BY <2>1, <2>2
<1>6. ASSUME NEW k \in DOMAIN table, table[k].name = d.name, table[k].scope = "global"
      PROVE  SameDefinition(after[k], d)
  <2>1. k \in Namesakes(table, d)
    BY <1>6 DEF Namesakes
  <2>2. CASE IsUnresolved(table[k])
    BY <1>2, <2>1, <2>2 DEF SameDefinition
  <2>3. CASE ~IsUnresolved(table[k])
    <3>1. SameDefinition(table[k], d)
      BY <2>1, <2>3 DEF Conflicts
    <3>. QED
      BY <1>2, <2>3, <3>1
  <2>. QED
    BY <2>2, <2>3
<1>7. Settled(after, c + 1)
  <2>. SUFFICES ASSUME NEW j \in DOMAIN table, NEW k \in DOMAIN table, j < c + 1,
                       IsDefinition(after[j]), after[k].scope = "global",
                       after[k].name = after[j].name
                PROVE  SameDefinition(after[j], after[k])
    BY <1>1 DEF Settled
  <2>1. /\ table[j].name = after[j].name /\ table[j].scope = "global"
        /\ table[k].name = after[j].name /\ table[k].scope = "global"
    BY <1>2 DEF IsDefinition
  <2>2. CASE after[j].name = d.name
    <3>1. SameDefinition(after[j], d) /\ SameDefinition(after[k], d)
      BY <1>6, <2>1, <2>2
    <3>. QED
      BY <3>1 DEF SameDefinition
  <2>3. CASE after[j].name # d.name
    <3>1. after[j] = table[j] /\ after[k] = table[k]
      BY <1>2, <2>1, <2>3 DEF Namesakes
    <3>2. j # c
      BY <2>1, <2>3
    <3>3. j < c
      BY <1>1, <3>2
    <3>4. Settled(table, c)
      BY DEF Resolved
    <3>. QED
      BY <2>1, <3>1, <3>3, <3>4 DEF Settled
  <2>. QED
    BY <2>2, <2>3
<1>. QED
  BY <1>1, <1>5, <1>7 DEF Resolved, after

LEMMA PassedNext ==
    ASSUME NEW original \in Seq(Symbol(Names)), NEW table \in Seq(Symbol(Names)),
           NEW c \in DOMAIN table, Resolved(original, table, c), ~IsDefinition(table[c])
    PROVE  Resolved(original, table, c + 1)
<1>1. DOMAIN table \subseteq Nat /\ DOMAIN original \subseteq Nat /\ c \in Nat
  OBVIOUS
<1>2. ASSUME NEW k \in DOMAIN original
      PROVE  table[k] = original[k] \/ Filled(original, table, c + 1, k)
  <2>1. CASE Filled(original, table, c, k)
    <3>1. PICK j \in DOMAIN original :
            /\ j < c /\ IsDefinition(original[j]) /\ original[j].name = original[k].name
            /\ table[k] = original[j]
      BY <2>1 DEF Filled
    <3>2. j < c + 1
      BY <1>1, <3>1
    <3>. QED
      BY <2>1, <3>1, <3>2 DEF Filled
  <2>. QED
    BY <2>1 DEF Resolved
<1>3. Settled(table, c + 1)
  <2>1. \A j \in DOMAIN table : j < c + 1 => j < c \/ j = c
    BY <1>1
  <2>. QED
    BY <2>1 DEF Settled, Resolved
<1>. QED
  BY <1>2, <1>3 DEF Resolved

LEMMA NextTraced ==
    TypeOK /\ Loaded /\ Summed /\ Laid /\ Traced /\ [Next]_vars => Traced'
<1>. SUFFICES ASSUME TypeOK, Loaded, Summed, Laid, Traced, [Next]_vars PROVE Traced'
  OBVIOUS
<1>a. TypeOK'
  BY NextTyped
<1>1. CASE LoadFile
  BY <1>1 DEF LoadFile, Traced
<1>2. CASE Allocate
  BY <1>2, AllocateTraced
<1>3. CASE MergeFile
  BY <1>3, <1>a, MergeFileTraced
<1>4. CASE CrashInMerge
  BY <1>4 DEF CrashInMerge, Traced
<1>5. CASE EndMerge
  <2>1. i = Len(files) + 1
    <3>1. Len(files) \in Nat /\ i \in 1 .. Len(files) + 1
      BY DEF TypeOK
    <3>. QED
      BY <1>5, <3>1 DEF EndMerge
  <2>. QED
    BY <1>5, <2>1 DEF EndMerge, Traced
<1>b. ASSUME phase = "resolve"
      PROVE  \E original \in Seq(Symbol(Names)) :
                /\ MergedTable(files, i, original)
                /\ Resolved(original, symtable, current)
  BY <1>b DEF Traced
<1>6. CASE PassOverSymbol
  <2>1. /\ phase = "resolve" /\ phase' = "resolve" /\ files' = files /\ i' = i
        /\ symtable' = symtable /\ current' = current + 1
        /\ ~IsDefinition(symtable[current])
    BY <1>6 DEF PassOverSymbol, AtSymbol
  <2>2. current \in DOMAIN symtable /\ symtable \in Seq(Symbol(Names))
    BY <1>6 DEF PassOverSymbol, AtSymbol, TypeOK
  <2>3. PICK original \in Seq(Symbol(Names)) :
          MergedTable(files, i, original) /\ Resolved(original, symtable, current)
    BY <1>b, <2>1
  <2>4. Resolved(original, symtable, current + 1)
    BY <2>1, <2>2, <2>3, PassedNext
  <2>. QED
    BY <2>1, <2>3, <2>4 DEF Traced
<1>7. CASE ResolveSymbol
  <2>1. /\ phase = "resolve" /\ phase' = "resolve" /\ files' = files /\ i' = i
        /\ symtable' = Propagate(symtable, symtable[current]) /\ current' = current + 1
        /\ IsDefinition(symtable[current]) /\ ~Conflicts(symtable, symtable[current])
    BY <1>7 DEF ResolveSymbol, AtSymbol
  <2>2. current \in DOMAIN symtable /\ symtable \in Seq(Symbol(Names))
    BY <1>7 DEF ResolveSymbol, AtSymbol, TypeOK
  <2>3. PICK original \in Seq(Symbol(Names)) :
          MergedTable(files, i, original) /\ Resolved(original, symtable, current)
    BY <1>b, <2>1
  <2>4. Resolved(original, symtable', current + 1)
    BY <2>1, <2>2, <2>3, ResolvedNext
  <2>. QED
    BY <2>1, <2>3, <2>4 DEF Traced
<1>8. CASE RejectConflict
  <2>1. current \in DOMAIN symtable
    BY <1>8 DEF RejectConflict, AtSymbol, TypeOK
  <2>. QED
    BY <1>8, <2>1 DEF RejectConflict, AtSymbol, Traced
<1>9. CASE EndResolve
  BY <1>9 DEF EndResolve, Traced
<1>10. CASE UNCHANGED vars
  BY <1>10 DEF vars, Traced
<1>. QED
  BY <1>1, <1>2, <1>3, <1>4, <1>5, <1>6, <1>7, <1>8, <1>9, <1>10 DEF Next, Exited

\* The inductive invariant of the linker.
LinkerInvariant == TypeOK /\ Loaded /\ Summed /\ Laid /\ Traced

THEOREM LinkerCorrect == Spec => []LinkerInvariant
<1>1. Init => LinkerInvariant
  BY InitTyped, InitLaid, InitTraced DEF LinkerInvariant
<1>2. LinkerInvariant /\ [Next]_vars => LinkerInvariant'
  BY NextTyped, NextLaid, NextTraced DEF LinkerInvariant
<1>. QED
  BY <1>1, <1>2, PTL DEF Spec

-----------------------------------------------------------------------------
(* What follows from the invariant.                                        *)

\* Whatever the order of the files, after a link all entries of a defined
\* global name are one definition.
THEOREM GlobalsAgreeAlways == Spec => []GlobalsAgree
<1>1. LinkerInvariant => GlobalsAgree
  <2>. SUFFICES ASSUME LinkerInvariant, phase = "linked" PROVE GlobalsAgree
    BY DEF GlobalsAgree
  <2>1. Settled(symtable, current) /\ current > Len(symtable)
    BY DEF LinkerInvariant, Traced, Resolved
  <2>2. \A j \in DOMAIN symtable : j < current
    <3>1. symtable \in Seq(Symbol(Names)) /\ current \in Nat
      BY DEF LinkerInvariant, TypeOK
    <3>. QED
      BY <2>1, <3>1
  <2>. QED
    BY <2>1, <2>2 DEF GlobalsAgree, Settled
<1>. QED
  BY <1>1, LinkerCorrect, PTL

\* Where a file's symbol is in the merged table, and what is left of it there.
LEMMA OwnSymbolTraced ==
    ASSUME LinkerInvariant, NEW f \in Merged, NEW n \in DOMAIN Own(f)
    PROVE  LET k == SymbolPosition(f, n)
               moved == Moved(files, f, n)
           IN  /\ f \in 1 .. Len(files) /\ files \in Inputs
               /\ Own(f) = OwnOf(files, f)
               /\ k = Base(files, f) + n /\ k \in DOMAIN symtable
               /\ symtable[k].name = moved.name /\ symtable[k].scope = moved.scope
               /\ ~IsUnresolved(moved) => symtable[k] = moved
<1>1. /\ f \in 1 .. Len(files) /\ f \in 1 .. i - 1 /\ files \in Inputs /\ phase # "load"
      /\ symtable \in Seq(Symbol(Names))
  BY DEF Merged, LinkerInvariant, TypeOK, Loaded
<1>2. Own(f) = OwnOf(files, f) /\ SymbolPosition(f, n) = Base(files, f) + n
  BY DEF Own, OwnOf, SymbolPosition, Base, OwnCounts
<1>3. PICK original \in Seq(Symbol(Names)) :
        MergedTable(files, i, original) /\ Resolved(original, symtable, current)
  BY <1>1 DEF LinkerInvariant, Traced
<1>. DEFINE k == Base(files, f) + n
<1>4. k \in DOMAIN original /\ original[k] = Moved(files, f, n)
  BY <1>1, <1>2, <1>3 DEF MergedTable
<1>5. k \in DOMAIN symtable
  BY <1>1, <1>3, <1>4 DEF Resolved
<1>6. symtable[k] = original[k] \/ Filled(original, symtable, current, k)
  BY <1>3, <1>4 DEF Resolved
<1>. HIDE DEF k
<1>7. CASE Filled(original, symtable, current, k)
  <2>1. PICK j \in DOMAIN original :
          /\ IsDefinition(original[j]) /\ original[j].name = original[k].name
          /\ symtable[k] = original[j]
    BY <1>7 DEF Filled
  <2>2. symtable[k].name = original[k].name /\ symtable[k].scope = original[k].scope
    BY <1>7, <2>1 DEF Filled, IsDefinition
  <2>. QED
    BY <1>1, <1>2, <1>4, <1>5, <1>7, <2>2 DEF Filled, k
<1>8. CASE symtable[k] = original[k]
  BY <1>1, <1>2, <1>4, <1>5, <1>8 DEF k
<1>. QED
  BY <1>6, <1>7, <1>8

LEMMA CopyFound ==
    ASSUME LinkerInvariant, NEW f \in Merged, NEW s \in Contents,
           SectionLength(files[f])[s] > 0
    PROVE  CopiedTo(f, s, Place(files, f, s))
<1>1. /\ f \in DOMAIN files /\ f \in 1 .. i - 1 /\ phase # "load" /\ f # 0
  BY DEF Merged, LinkerInvariant, TypeOK, Loaded
<1>2. LaidBefore(files, s, i, sections[s])
  BY <1>1 DEF LinkerInvariant, Laid
<1>3. LengthsOf(files, s)[f] > 0
  BY <1>1 DEF LengthsOf
<1>4. PICK k \in DOMAIN sections[s] : sections[s][k].file = f
  BY <1>1, <1>2, <1>3 DEF LaidBefore
<1>5. sections[s][k].at = Place(files, f, s)
  <2>1. PieceLaid(files, s, i, sections[s][k])
    BY <1>2 DEF LaidBefore
  <2>. QED
    BY <1>1, <1>4, <2>1 DEF PieceLaid
<1>. QED
  BY <1>4, <1>5 DEF CopiedTo

\* The arithmetic of offsets keeps every symbol on its item.
THEOREM SymbolsFollowSectionsAlways == Spec => []SymbolsFollowSections
<1>1. LinkerInvariant => SymbolsFollowSections
  <2>. SUFFICES ASSUME LinkerInvariant, NEW f \in Merged, NEW n \in DOMAIN Own(f)
       PROVE  LET symbol == Own(f)[n]
                  placed == symtable[SymbolPosition(f, n)]
              IN  /\ placed.name = symbol.name /\ placed.scope = symbol.scope
                  /\ symbol.section # "none" =>
                        placed.section = symbol.section /\ placed.size = symbol.size
                  /\ symbol.section # "none" /\ SectionLength(files[f])[symbol.section] > 0 =>
                        CopiedTo(f, symbol.section, placed.offset - symbol.offset)
    BY DEF SymbolsFollowSections
  <2>. DEFINE symbol == Own(f)[n]
              placed == symtable[SymbolPosition(f, n)]
              moved == Moved(files, f, n)
  <2>1. /\ f \in 1 .. Len(files) /\ files \in Inputs /\ Own(f) = OwnOf(files, f)
        /\ placed.name = moved.name /\ placed.scope = moved.scope
        /\ ~IsUnresolved(moved) => placed = moved
    BY OwnSymbolTraced
  <2>2. /\ symbol \in Symbol(Names)
        /\ moved.name = symbol.name /\ moved.scope = symbol.scope
        /\ moved.section = symbol.section /\ moved.size = symbol.size
        /\ symbol.section # "none" =>
              /\ symbol.section \in Contents
              /\ moved.offset = symbol.offset + Place(files, f, symbol.section)
    BY <2>1, MovedKeeps
  <2>. HIDE DEF symbol, placed, moved
  <2>3. ASSUME symbol.section # "none"
        PROVE  /\ placed = moved
               /\ placed.offset - symbol.offset = Place(files, f, symbol.section)
    <3>1. placed = moved
      BY <2>1, <2>2, <2>3 DEF IsUnresolved
    <3>2. symbol.offset \in Nat /\ Place(files, f, symbol.section) \in Nat
      <4>1. f \in 1 .. Len(files) + 1
        BY <2>1, PlacesTyped
      <4>. QED
        BY <2>1, <2>2, <2>3, <4>1, ExtraTyped DEF Symbol
    <3>. QED
      BY <2>2, <2>3, <3>1, <3>2
  <2>4. symbol.section # "none" /\ SectionLength(files[f])[symbol.section] > 0 =>
          CopiedTo(f, symbol.section, placed.offset - symbol.offset)
    BY <2>2, <2>3, CopyFound
  <2>. QED
    BY <2>1, <2>2, <2>3, <2>4 DEF symbol, placed
<1>. QED
  BY <1>1, LinkerCorrect, PTL

\* A later file's section lies behind the whole of an earlier one's.
LEMMA LaterPlace ==
    ASSUME NEW given \in Inputs, NEW s \in Contents, NEW f \in 1 .. Len(given),
           NEW g \in 1 .. Len(given) + 1, f < g
    PROVE  Place(given, f, s) + LengthsOf(given, s)[f] <= Place(given, g, s)
<1>1. /\ f \in 1 .. Len(given) + 1 /\ g \in 1 .. Len(given) + 1 /\ f + 1 <= g
      /\ f + 1 \in 1 .. Len(given) + 1
  BY PlacesTyped
<1>2. /\ Before(given, f + 1, s) = Before(given, f, s) + LengthsOf(given, s)[f]
      /\ Before(given, f + 1, s) <= Before(given, g, s)
      /\ Before(given, f, s) \in Nat /\ Before(given, f + 1, s) \in Nat
      /\ Before(given, g, s) \in Nat /\ LengthsOf(given, s)[f] \in Nat
  BY <1>1, PlacesTyped
<1>3. Extra(given, f, s) <= Extra(given, g, s) /\ Extra(given, f, s) \in Nat
      /\ Extra(given, g, s) \in Nat
  <2>1. Extra(given, f, s) \in Nat /\ Extra(given, g, s) \in Nat
    BY <1>1, ExtraTyped
  <2>2. f > 1 => g > 1
    OBVIOUS
  <2>. QED
    BY <2>1, <2>2 DEF Extra, InstructionSize
<1>. QED
  BY <1>2, <1>3 DEF Place

\* What a file promises of its own symbols.
LEMMA OwnSymbolSound ==
    ASSUME NEW given \in Inputs, NEW f \in 1 .. Len(given), NEW n \in DOMAIN OwnOf(given, f)
    PROVE  LET symbol == OwnOf(given, f)[n]
           IN  /\ symbol \in Symbol(Names)
               /\ symbol.type = "extern" => symbol.section = "none"
               /\ symbol.type = "function" => symbol.section = "text"
               /\ symbol.section # "none" =>
                     /\ symbol.size <= symbol.offset
                     /\ symbol.offset <= LengthsOf(given, symbol.section)[f]
<1>. DEFINE entries == given[f].symbols
            symbol == OwnOf(given, f)[n]
<1>1. f \in DOMAIN given /\ given[f] \in Image /\ WellFormed(given[f])
  BY PlacesTyped, InputGiven DEF Contents
<1>2. entries \in Seq(Symbol(Names)) /\ Len(entries) \in Nat
  BY <1>1 DEF Image
<1>3. n + 3 \in DOMAIN entries /\ symbol = entries[n + 3]
  <2>1. OwnOf(given, f) = SubSeq(entries, 4, Len(entries))
    BY DEF OwnOf, OwnSymbols
  <2>. HIDE DEF entries
  <2>. QED
    BY <1>2, <2>1
<1>4. symbol \in Symbol(Names)
  BY <1>2, <1>3, ElementTyped
<1>5. /\ symbol.type = "extern" => symbol.section = "none"
      /\ symbol.type = "function" => symbol.section = "text"
      /\ symbol.section # "none" =>
            /\ symbol.size <= symbol.offset
            /\ symbol.offset <= SectionLength(given[f])[symbol.section]
  BY <1>1, <1>3 DEF WellFormed
<1>. QED
  BY <1>1, <1>4, <1>5 DEF LengthsOf

\* An item lies within its section.
LEMMA ItemWithin ==
    ASSUME NEW given \in Inputs, NEW f \in 1 .. Len(given), NEW n \in DOMAIN OwnOf(given, f),
           OwnOf(given, f)[n].section # "none"
    PROVE  LET symbol == OwnOf(given, f)[n]
           IN  /\ symbol.size \in Nat /\ symbol.offset \in Nat
               /\ symbol.size <= symbol.offset
               /\ symbol.offset <= LengthsOf(given, symbol.section)[f]
BY OwnSymbolSound DEF Symbol

\* Items of different files that coincide in the merged section are empty.
LEMMA ItemsApart ==
    ASSUME NEW given \in Inputs, NEW f \in 1 .. Len(given), NEW g \in 1 .. Len(given), f < g,
           NEW m \in DOMAIN OwnOf(given, f), NEW n \in DOMAIN OwnOf(given, g),
           OwnOf(given, f)[m].section # "none",
           SameDefinition(Moved(given, f, m), Moved(given, g, n))
    PROVE  OwnOf(given, f)[m].size = 0 /\ OwnOf(given, g)[n].size = 0
<1>. DEFINE s == OwnOf(given, f)[m]
            t == OwnOf(given, g)[n]
            place == s.section
<1>1. /\ s.section = t.section /\ place \in Contents /\ s.size = t.size
      /\ s.offset + Place(given, f, place) = t.offset + Place(given, g, place)
  BY MovedKeeps DEF SameDefinition
<1>2. /\ s.size \in Nat /\ s.offset \in Nat /\ s.size <= s.offset
      /\ s.offset <= LengthsOf(given, place)[f]
  BY ItemWithin
<1>3. t.size \in Nat /\ t.offset \in Nat /\ t.size <= t.offset
  BY <1>1, ItemWithin
<1>4. Place(given, f, place) + LengthsOf(given, place)[f] <= Place(given, g, place)
  <2>1. g \in 1 .. Len(given) + 1
    BY <1>1, PlacesTyped
  <2>. QED
    BY <1>1, <2>1, LaterPlace
<1>5. /\ Place(given, f, place) \in Nat /\ Place(given, g, place) \in Nat
      /\ LengthsOf(given, place)[f] \in Nat
  <2>1. f \in 1 .. Len(given) + 1 /\ g \in 1 .. Len(given) + 1
    BY <1>1, PlacesTyped
  <2>. QED
    BY <1>1, <2>1, PlacesTyped, ExtraTyped
<1>. HIDE DEF s, t, place
<1>6. t.offset = 0
  BY <1>1, <1>2, <1>3, <1>4, <1>5
<1>7. s.size = 0 /\ t.size = 0
  BY <1>1, <1>2, <1>3, <1>6
<1>. QED
  BY <1>7 DEF s, t

\* Within one file no two symbols of its own share a name.
LEMMA OwnNamesDiffer ==
    ASSUME NEW given \in Inputs, NEW f \in 1 .. Len(given),
           NEW m \in DOMAIN OwnOf(given, f), NEW n \in DOMAIN OwnOf(given, f),
           OwnOf(given, f)[m].name = OwnOf(given, f)[n].name
    PROVE  m = n
<1>. DEFINE entries == given[f].symbols
<1>1. f \in DOMAIN given /\ given[f] \in Image /\ WellFormed(given[f])
  BY PlacesTyped, InputGiven DEF Contents
<1>2. entries \in Seq(Symbol(Names)) /\ Len(entries) \in Nat /\ TailUnique(entries)
  BY <1>1 DEF Image, WellFormed
<1>3. OwnOf(given, f) = SubSeq(entries, 4, Len(entries))
  BY DEF OwnOf, OwnSymbols
<1>. HIDE DEF entries
<1>4. ASSUME NEW k \in DOMAIN OwnOf(given, f)
      PROVE  /\ k \in Nat /\ k + 3 \in 2 .. Len(entries)
             /\ OwnOf(given, f)[k] = entries[k + 3]
  <2>. DEFINE own == SubSeq(entries, 4, Len(entries))
  <2>1. /\ DOMAIN own = IF 4 <= Len(entries) THEN 1 .. Len(entries) - 3 ELSE {}
        /\ \A j \in DOMAIN own : own[j] = entries[j + 3]
    <3>1. Len(own) = IF 4 <= Len(entries) THEN Len(entries) - 4 + 1 ELSE 0
      BY <1>2
    <3>2. own \in Seq(Symbol(Names))
      BY <1>2
    <3>3. DOMAIN own = IF 4 <= Len(entries) THEN 1 .. Len(entries) - 3 ELSE {}
      BY <1>2, <3>1, <3>2
    <3>4. ASSUME NEW j \in DOMAIN own PROVE own[j] = entries[j + 3]
      <4>1. j \in 1 .. Len(entries) - 3 /\ 4 <= Len(entries)
        BY <3>3
      <4>2. own[j] = entries[4 + j - 1]
        BY <1>2, <4>1
      <4>3. 4 + j - 1 = j + 3
        BY <4>1
      <4>. QED
        BY <4>2, <4>3
    <3>. QED
      BY <3>3, <3>4
  <2>. HIDE DEF own
  <2>2. k \in DOMAIN own
    BY <1>3, <1>4 DEF own
  <2>3. k \in 1 .. Len(entries) - 3 /\ 4 <= Len(entries)
    BY <2>1, <2>2
  <2>4. OwnOf(given, f)[k] = entries[k + 3]
    BY <1>3, <2>1, <2>2 DEF own
  <2>. QED
    BY <1>2, <2>3, <2>4
<1>5. m + 3 = n + 3
  BY <1>2, <1>4 DEF TailUnique
<1>. QED
  BY <1>4, <1>5

LEMMA LinkedHasNoRivals ==
    ASSUME LinkerInvariant, phase = "linked", NEW f \in DOMAIN files, NEW g \in DOMAIN files,
           f # g, Rivals(f, g, 1)
    PROVE  FALSE
<1>1. PICK m \in DOMAIN Own(f), n \in DOMAIN Own(g) :
        /\ Claims(Own(f)[m], Own(g)[n])
        /\ Own(f)[m].size >= 1 \/ Own(g)[n].size >= 1
  BY DEF Rivals
<1>. DEFINE s == Own(f)[m]
            t == Own(g)[n]
            j == SymbolPosition(f, m)
            k == SymbolPosition(g, n)
<1>2. f \in Merged /\ g \in Merged
  <2>1. i = Len(files) + 1 /\ files \in Inputs
    BY DEF LinkerInvariant, Traced, Loaded
  <2>2. Len(files) \in Nat /\ DOMAIN files = 1 .. Len(files) /\ Merged = 1 .. i - 1
    BY <2>1, PlacesTyped DEF Merged, Contents
  <2>. QED
    BY <2>1, <2>2
<1>3. /\ f \in 1 .. Len(files) /\ files \in Inputs /\ Own(f) = OwnOf(files, f)
      /\ j \in DOMAIN symtable
      /\ ~IsUnresolved(Moved(files, f, m)) => symtable[j] = Moved(files, f, m)
  BY <1>2, OwnSymbolTraced
<1>4. /\ g \in 1 .. Len(files) /\ Own(g) = OwnOf(files, g)
      /\ k \in DOMAIN symtable
      /\ ~IsUnresolved(Moved(files, g, n)) => symtable[k] = Moved(files, g, n)
  BY <1>2, OwnSymbolTraced
<1>5. LET moved == Moved(files, f, m)
      IN  /\ moved.name = s.name /\ moved.scope = s.scope
          /\ moved.section = s.section /\ moved.type = s.type
  BY <1>3, MovedKeeps
<1>6. LET moved == Moved(files, g, n)
      IN  /\ moved.name = t.name /\ moved.scope = t.scope
          /\ moved.section = t.section /\ moved.type = t.type
  BY <1>3, <1>4, MovedKeeps
<1>7. /\ s.name = t.name /\ t.scope = "global" /\ IsDefinition(s) /\ ~IsUnresolved(t)
  BY <1>1 DEF Claims
<1>8. /\ IsDefinition(Moved(files, f, m)) /\ symtable[j] = Moved(files, f, m)
      /\ symtable[k] = Moved(files, g, n)
  BY <1>3, <1>4, <1>5, <1>6, <1>7 DEF IsDefinition, IsUnresolved
<1>9. SameDefinition(Moved(files, f, m), Moved(files, g, n))
  <2>1. j < current
    <3>1. symtable \in Seq(Symbol(Names)) /\ current \in Nat
      BY DEF LinkerInvariant, TypeOK
    <3>2. current > Len(symtable)
      BY DEF LinkerInvariant, Traced
    <3>. QED
      BY <1>3, <3>1, <3>2
  <2>2. Settled(symtable, current)
    BY DEF LinkerInvariant, Traced, Resolved
  <2>. HIDE DEF j, k, s, t
  <2>. QED
    BY <1>3, <1>4, <1>5, <1>6, <1>7, <1>8, <2>1, <2>2 DEF Settled
<1>10. SameDefinition(Moved(files, g, n), Moved(files, f, m)) /\ t.section # "none"
  BY <1>5, <1>6, <1>7, <1>9 DEF SameDefinition, IsDefinition
<1>11. f < g \/ g < f
  BY <1>3, <1>4
<1>12. s.size = 0 /\ t.size = 0
  <2>1. CASE f < g
    BY <1>3, <1>4, <1>7, <1>9, <2>1, ItemsApart DEF IsDefinition
  <2>2. CASE g < f
    BY <1>3, <1>4, <1>10, <2>2, ItemsApart
  <2>. QED
    BY <1>11, <2>1, <2>2
<1>. QED
  BY <1>1, <1>12
\* The two entries that make a conflict are no copies: a copy is settled.
LEMMA ConflictOriginal ==
    ASSUME NEW original \in Seq(Symbol(Names)), NEW table \in Seq(Symbol(Names)),
           NEW c \in DOMAIN table, NEW k \in Namesakes(table, table[c]),
           Resolved(original, table, c), IsDefinition(table[c]),
           ~IsUnresolved(table[k]), ~SameDefinition(table[k], table[c])
    PROVE  /\ c \in DOMAIN original /\ k \in DOMAIN original /\ c # k
           /\ table[c] = original[c] /\ table[k] = original[k]
<1>1. c \in DOMAIN original /\ k \in DOMAIN original /\ k \in DOMAIN table
  BY DEF Resolved, Namesakes
<1>2. /\ table[k].name = table[c].name
      /\ table[k].scope = "global" /\ table[c].scope = "global"
  BY DEF Namesakes, IsDefinition
<1>3. Settled(table, c) /\ DOMAIN table = DOMAIN original
  BY DEF Resolved
<1>4. ASSUME NEW l \in DOMAIN original, Filled(original, table, c, l)
      PROVE  \E j \in DOMAIN table :
                j < c /\ IsDefinition(table[j]) /\ table[l] = table[j]
  <2>1. PICK j \in DOMAIN original :
          /\ j < c /\ IsDefinition(original[j]) /\ table[l] = original[j]
    BY <1>4 DEF Filled
  <2>2. ~IsUnresolved(original[j])
    BY <2>1 DEF IsDefinition, IsUnresolved
  <2>3. table[j] = original[j]
    BY <2>2 DEF Resolved, Filled
  <2>. QED
    BY <1>3, <2>1, <2>3
<1>5. table[c] = original[c]
  <2>. SUFFICES ASSUME Filled(original, table, c, c) PROVE FALSE
    BY <1>1 DEF Resolved
  <2>1. PICK j \in DOMAIN table : j < c /\ IsDefinition(table[j]) /\ table[c] = table[j]
    BY <1>1, <1>4
  <2>2. SameDefinition(table[j], table[k])
    BY <1>1, <1>2, <1>3, <2>1 DEF Settled
  <2>. QED
    BY <2>1, <2>2 DEF SameDefinition
<1>6. table[k] = original[k]
  <2>. SUFFICES ASSUME Filled(original, table, c, k) PROVE FALSE
    BY <1>1 DEF Resolved
  <2>1. PICK j \in DOMAIN table : j < c /\ IsDefinition(table[j]) /\ table[k] = table[j]
    BY <1>1, <1>4
  <2>2. SameDefinition(table[j], table[c])
    BY <1>2, <1>3, <2>1 DEF Settled
  <2>. QED
    BY <2>1, <2>2
<1>7. c # k
  BY DEF SameDefinition
<1>. QED
  BY <1>1, <1>5, <1>6, <1>7

LEMMA FailedHasRivals ==
    ASSUME LinkerInvariant, phase = "failed"
    PROVE  \E f, g \in DOMAIN files : f # g /\ Rivals(f, g, 0)
<1>1. /\ files \in Inputs /\ i = Len(files) + 1 /\ symtable \in Seq(Symbol(Names))
      /\ current \in DOMAIN symtable /\ IsDefinition(symtable[current])
      /\ Conflicts(symtable, symtable[current])
  BY DEF LinkerInvariant, TypeOK, Loaded, Traced
<1>2. DOMAIN files = 1 .. i - 1 /\ DOMAIN files = 1 .. Len(files)
  <2>1. files \in Seq(Image)
    BY DEF LinkerInvariant, TypeOK
  <2>. QED
    BY <1>1, <2>1
<1>3. PICK original \in Seq(Symbol(Names)) :
        MergedTable(files, i, original) /\ Resolved(original, symtable, current)
  BY DEF LinkerInvariant, Traced
<1>4. PICK k \in Namesakes(symtable, symtable[current]) :
        ~IsUnresolved(symtable[k]) /\ ~SameDefinition(symtable[k], symtable[current])
  BY <1>1 DEF Conflicts
<1>5. /\ current \in DOMAIN original /\ k \in DOMAIN original /\ current # k
      /\ symtable[current] = original[current] /\ symtable[k] = original[k]
  BY <1>1, <1>3, <1>4, ConflictOriginal
<1>a. PICK f \in 1 .. i - 1 :
        \E m \in DOMAIN OwnOf(files, f) : current = Base(files, f) + m
  BY <1>3, <1>5 DEF MergedTable
<1>6. PICK m \in DOMAIN OwnOf(files, f) : current = Base(files, f) + m
  BY <1>a
<1>b. PICK g \in 1 .. i - 1 : \E n \in DOMAIN OwnOf(files, g) : k = Base(files, g) + n
  BY <1>3, <1>5 DEF MergedTable
<1>7. PICK n \in DOMAIN OwnOf(files, g) : k = Base(files, g) + n
  BY <1>b
<1>8. original[current] = Moved(files, f, m) /\ original[k] = Moved(files, g, n)
  BY <1>3, <1>6, <1>7 DEF MergedTable
<1>. DEFINE s == OwnOf(files, f)[m]
            t == OwnOf(files, g)[n]
<1>9. LET moved == Moved(files, f, m)
      IN  /\ s \in Symbol(Names) /\ moved.name = s.name /\ moved.scope = s.scope
          /\ moved.section = s.section /\ moved.type = s.type
  BY <1>1, <1>2, MovedKeeps
<1>10. LET moved == Moved(files, g, n)
       IN  /\ t \in Symbol(Names) /\ moved.name = t.name /\ moved.scope = t.scope
           /\ moved.section = t.section /\ moved.type = t.type
  BY <1>1, <1>2, MovedKeeps
<1>. HIDE DEF s, t
<1>11. Claims(s, t)
  <2>1. symtable[k].name = symtable[current].name /\ symtable[k].scope = "global"
    BY <1>4 DEF Namesakes
  <2>. QED
    BY <1>1, <1>4, <1>5, <1>8, <1>9, <1>10, <2>1 DEF Claims, IsDefinition, IsUnresolved
<1>12. f # g
  <2>. SUFFICES ASSUME f = g PROVE FALSE
    OBVIOUS
  <2>1. m = n
    BY <1>1, <1>2, <1>11, OwnNamesDiffer DEF Claims, s, t
  <2>. QED
    BY <1>5, <1>6, <1>7, <2>1
<1>13. Rivals(f, g, 0)
  <2>1. s.size >= 0
    BY <1>9 DEF Symbol
  <2>2. Own(f) = OwnOf(files, f) /\ Own(g) = OwnOf(files, g)
    BY DEF Own, OwnOf
  <2>. QED
    BY <1>11, <2>1, <2>2 DEF Rivals, s, t
<1>. QED
  BY <1>2, <1>12, <1>13

\* Files are refused over a global item that two of them define, and a link
\* that succeeds had no such item of a size.
THEOREM LinkVerdictAlways == Spec => []LinkVerdict
<1>1. LinkerInvariant => LinkVerdict
  BY LinkedHasNoRivals, FailedHasRivals DEF LinkVerdict
<1>. QED
  BY <1>1, LinkerCorrect, PTL
-----------------------------------------------------------------------------
(* Relocations.  The merged table is that of the files' relocations, each   *)
(* moved with the text of its file.                                        *)

RelocCounts(given) == [f \in DOMAIN given |-> Len(given[f].relocs)]
RelocBase(given, f) == CountBefore(f, RelocCounts(given))
MovedReloc(given, f, n) ==
    MovedRelocation(given[f].relocs[n], f, Base(given, f + 1), Places(given, f))

\* The table before file m is merged.
MergedRelocs(given, m, table) ==
    /\ Len(table) = RelocBase(given, m)
    /\ \A f \in 1 .. m - 1 : \A n \in DOMAIN given[f].relocs :
          /\ RelocBase(given, f) + n \in DOMAIN table
          /\ table[RelocBase(given, f) + n] = MovedReloc(given, f, n)
    /\ \A k \in DOMAIN table : \E f \in 1 .. m - 1 : \E n \in DOMAIN given[f].relocs :
          k = RelocBase(given, f) + n

Carried ==
    /\ phase = "load" => reloctable = << >>
    /\ phase # "load" => MergedRelocs(files, i, reloctable)

LEMMA RelocBasesTyped ==
    ASSUME NEW given \in Inputs
    PROVE  /\ RelocBase(given, 1) = 0
           /\ \A f \in 1 .. Len(given) :
                 /\ given[f].relocs \in Seq(Relocation)
                 /\ RelocBase(given, f) \in Nat
                 /\ RelocBase(given, f + 1) = RelocBase(given, f) + Len(given[f].relocs)
           /\ \A f, g \in 1 .. Len(given) + 1 : f <= g => RelocBase(given, f) <= RelocBase(given, g)
<1>1. Len(given) \in Nat /\ DOMAIN given = 1 .. Len(given)
      /\ \A f \in 1 .. Len(given) : f \in 1 .. Len(given) + 1
  <2>1. given \in Seq(Image)
    BY InputsAssumption
  <2>. QED
    BY <2>1
<1>2. \A f \in 1 .. Len(given) : given[f].relocs \in Seq(Relocation)
  BY <1>1, InputGiven DEF Image
<1>3. RelocCounts(given) \in [1 .. Len(given) -> Nat]
  <2>1. \A f \in 1 .. Len(given) : Len(given[f].relocs) \in Nat
    BY <1>2
  <2>. QED
    BY <1>1, <2>1 DEF RelocCounts
<1>4. \A f \in 1 .. Len(given) : RelocCounts(given)[f] = Len(given[f].relocs)
  BY <1>1 DEF RelocCounts
<1>. QED
  BY <1>1, <1>2, <1>3, <1>4, CountBeforeSums, CountBeforeGrows DEF RelocBase

\* One more file merged: its relocations stand behind those before.
LEMMA RelocsNext ==
    ASSUME NEW given \in Inputs, NEW m \in 1 .. Len(given),
           NEW table \in Seq(Relocation), NEW more \in Seq(Relocation),
           MergedRelocs(given, m, table),
           Len(more) = Len(given[m].relocs),
           \A n \in DOMAIN given[m].relocs : more[n] = MovedReloc(given, m, n)
    PROVE  MergedRelocs(given, m + 1, table \o more)
<1>. DEFINE own == given[m].relocs
            joined == table \o more
<1>1. /\ m \in Nat /\ 1 .. (m + 1) - 1 = 1 .. m
      /\ \A f \in 1 .. m : f \in 1 .. m - 1 \/ f = m
  OBVIOUS
<1>2. /\ Len(table) = RelocBase(given, m) /\ RelocBase(given, m) \in Nat
      /\ RelocBase(given, m + 1) = RelocBase(given, m) + Len(own)
      /\ own \in Seq(Relocation)
  BY RelocBasesTyped DEF MergedRelocs
<1>3. Len(own) \in Nat /\ DOMAIN own = 1 .. Len(own)
  BY <1>2
<1>4. /\ Len(joined) = Len(table) + Len(more)
      /\ DOMAIN joined = 1 .. Len(table) + Len(more) /\ DOMAIN table = 1 .. Len(table)
      /\ \A k \in 1 .. Len(table) : joined[k] = table[k]
      /\ \A n \in 1 .. Len(more) : joined[Len(table) + n] = more[n]
      /\ Len(table) \in Nat /\ Len(more) \in Nat
  OBVIOUS
<1>5. Len(more) = Len(own) /\ \A n \in DOMAIN own : more[n] = MovedReloc(given, m, n)
  OBVIOUS
<1>. HIDE DEF own, joined
<1>6. ASSUME NEW f \in 1 .. m, NEW n \in DOMAIN given[f].relocs
      PROVE  /\ RelocBase(given, f) + n \in DOMAIN joined
             /\ joined[RelocBase(given, f) + n] = MovedReloc(given, f, n)
  <2>1. CASE f \in 1 .. m - 1
    <3>1. /\ RelocBase(given, f) + n \in DOMAIN table
          /\ table[RelocBase(given, f) + n] = MovedReloc(given, f, n)
      BY <2>1 DEF MergedRelocs
    <3>. QED
      BY <1>4, <3>1
  <2>2. CASE f = m
    <3>1. n \in 1 .. Len(own)
      BY <1>3, <2>2 DEF own
    <3>2. RelocBase(given, f) + n = Len(table) + n /\ Len(table) + n \in DOMAIN joined
      BY <1>2, <1>3, <1>4, <1>5, <2>2, <3>1
    <3>. QED
      BY <1>3, <1>4, <1>5, <2>2, <3>1, <3>2
  <2>. QED
    BY <1>1, <2>1, <2>2
<1>7. Len(joined) = RelocBase(given, m + 1)
  BY <1>2, <1>4, <1>5
<1>a. ASSUME NEW k \in DOMAIN joined
      PROVE  \E f \in 1 .. m : \E n \in DOMAIN given[f].relocs : k = RelocBase(given, f) + n
  <2>1. CASE k \in DOMAIN table
    <3>1. PICK f \in 1 .. m - 1 : \E n \in DOMAIN given[f].relocs : k = RelocBase(given, f) + n
      BY <2>1 DEF MergedRelocs
    <3>2. f \in 1 .. m
      BY <1>1
    <3>. QED
      BY <3>1, <3>2
  <2>2. CASE k \notin DOMAIN table
    <3>1. k - Len(table) \in DOMAIN own /\ k = RelocBase(given, m) + (k - Len(table))
      BY <1>2, <1>3, <1>4, <1>5, <2>2
    <3>2. m \in 1 .. m
      BY <1>1
    <3>. QED
      BY <3>1, <3>2 DEF own
  <2>. QED
    BY <2>1, <2>2
<1>8. MergedRelocs(given, m + 1, joined)
  BY <1>1, <1>6, <1>7, <1>a DEF MergedRelocs
<1>. QED
  BY <1>8 DEF joined

LEMMA MergeFileCarried ==
    ASSUME LinkerInvariant, Carried, MergeFile
    PROVE  Carried'
<1>1. /\ phase = "merge" /\ phase' = "merge" /\ i \in 1 .. Len(files) /\ i' = i + 1
      /\ files' = files /\ files \in Inputs /\ i <= Len(files) /\ i \in Nat
      /\ reloctable \in Seq(Relocation) /\ symtable \in Seq(Symbol(Names))
  BY DEF MergeFile, LinkerInvariant, TypeOK, Loaded
<1>2. MergedRelocs(files, i, reloctable)
  BY <1>1 DEF Carried
<1>. DEFINE relocs == files[i].relocs
            counted == symbol_offset + Len(Own(i))
            more == [n \in DOMAIN relocs |->
                       MovedRelocation(relocs[n], i, counted, section_offset)]
<1>3. /\ relocs \in Seq(Relocation) /\ context[i].reloctable = relocs
      /\ OwnSymbols(context[i].symtable) = Own(i) /\ Own(i) = OwnOf(files, i)
      /\ Own(i) \in Seq(Symbol(Names))
  BY <1>1, ContextGiven DEF Own, OwnOf, LinkerInvariant
<1>4. reloctable' = reloctable \o more
  BY <1>3 DEF MergeFile, Merge
<1>5. section_offset = Places(files, i) /\ section_offset \in [Contents -> Nat]
  <2>1. \A s \in Contents : section_offset[s] = Place(files, i, s)
    BY <1>1 DEF LinkerInvariant, Laid
  <2>2. section_offset \in [Contents -> Nat]
    BY DEF LinkerInvariant, TypeOK
  <2>. QED
    BY <2>1, <2>2 DEF Places
<1>6. counted = Base(files, i + 1) /\ counted \in Nat
  <2>1. PICK original \in Seq(Symbol(Names)) :
          MergedTable(files, i, original) /\ symtable = original
    BY <1>1 DEF LinkerInvariant, Traced
  <2>2. symbol_offset = Base(files, i)
    BY <2>1 DEF MergedTable, LinkerInvariant, TypeOK
  <2>3. Base(files, i + 1) = Base(files, i) + Len(OwnOf(files, i))
    BY <1>1, BasesTyped
  <2>4. symbol_offset \in Nat /\ Len(Own(i)) \in Nat
    BY <1>1, <1>3 DEF LinkerInvariant, TypeOK
  <2>. QED
    BY <1>3, <2>2, <2>3, <2>4
<1>. HIDE DEF counted
<1>7. more \in Seq(Relocation) /\ Len(more) = Len(relocs)
  <2>1. \A n \in DOMAIN relocs :
          MovedRelocation(relocs[n], i, counted, section_offset) \in Relocation
    BY <1>1, <1>3, <1>5, <1>6, ElementTyped, MovedRelocationTyped
  <2>2. DOMAIN relocs = 1 .. Len(relocs) /\ Len(relocs) \in Nat
    BY <1>3
  <2>. HIDE DEF relocs
  <2>. QED
    BY <2>1, <2>2
<1>8. \A n \in DOMAIN files[i].relocs : more[n] = MovedReloc(files, i, n)
  BY <1>5, <1>6 DEF MovedReloc
<1>. HIDE DEF more
<1>9. MergedRelocs(files, i + 1, reloctable')
  BY <1>1, <1>2, <1>4, <1>7, <1>8, RelocsNext
<1>. QED
  BY <1>1, <1>9 DEF Carried

LEMMA CarriedNext == LinkerInvariant /\ Carried /\ [Next]_vars => Carried'
<1>. SUFFICES ASSUME LinkerInvariant, Carried, [Next]_vars PROVE Carried'
  OBVIOUS
<1>1. CASE LoadFile
  BY <1>1 DEF LoadFile, Carried
<1>2. CASE Allocate
  <2>1. files \in Inputs /\ files' = files /\ phase' = "merge" /\ i' = 1
        /\ reloctable' = << >>
    BY <1>2 DEF Allocate, Carried, LinkerInvariant, Loaded
  <2>2. MergedRelocs(files, 1, << >>)
    BY <2>1, RelocBasesTyped DEF MergedRelocs
  <2>. QED
    BY <2>1, <2>2 DEF Carried
<1>3. CASE MergeFile
  BY <1>3, MergeFileCarried
<1>4. CASE CrashInMerge
  BY <1>4 DEF CrashInMerge, Carried
<1>5. CASE EndMerge
  BY <1>5 DEF EndMerge, Carried
<1>6. CASE PassOverSymbol
  BY <1>6 DEF PassOverSymbol, AtSymbol, Carried
<1>7. CASE ResolveSymbol
  BY <1>7 DEF ResolveSymbol, AtSymbol, Carried
<1>8. CASE RejectConflict
  BY <1>8 DEF RejectConflict, AtSymbol, Carried
<1>9. CASE EndResolve
  BY <1>9 DEF EndResolve, Carried
<1>10. CASE UNCHANGED vars
  BY <1>10 DEF vars, Carried
<1>. QED
  BY <1>1, <1>2, <1>3, <1>4, <1>5, <1>6, <1>7, <1>8, <1>9, <1>10 DEF Next, Exited

\* The name at a merged position is that of the symbol that was moved there.
LEMMA FirstFileNames ==
    ASSUME LinkerInvariant, 1 \in Merged,
           NEW index \in Nat, index >= 3, HasIndex(files[1].symbols, index)
    PROVE  SymbolAt(symtable, index - 3).name = SymbolAt(files[1].symbols, index).name
<1>. DEFINE entries == files[1].symbols
            n == index - 2
<1>1. files \in Inputs /\ 1 \in 1 .. Len(files) /\ 1 \in DOMAIN files
  BY DEF Merged, LinkerInvariant, TypeOK, Loaded
<1>2. entries \in Seq(Symbol(Names)) /\ Len(entries) \in Nat
  BY <1>1, InputGiven DEF Image
<1>3. index + 1 \in 1 .. Len(entries)
  BY <1>2 DEF HasIndex
<1>4. Own(1) = SubSeq(entries, 4, Len(entries))
  BY DEF Own, OwnSymbols
<1>. HIDE DEF entries
<1>5. n \in DOMAIN Own(1) /\ Own(1)[n] = entries[index + 1]
  BY <1>2, <1>3, <1>4
<1>6. /\ SymbolPosition(1, n) = Base(files, 1) + n /\ Own(1) = OwnOf(files, 1)
      /\ symtable[SymbolPosition(1, n)].name = Moved(files, 1, n).name
  BY <1>5, OwnSymbolTraced
<1>7. Moved(files, 1, n).name = Own(1)[n].name
  BY <1>1, <1>5, <1>6, MovedKeeps
<1>8. SymbolPosition(1, n) = (index - 3) + 1
  BY <1>1, <1>6, BasesTyped
<1>. QED
  BY <1>5, <1>6, <1>7, <1>8 DEF SymbolAt, entries

LEMMA CarriedAlways == Spec => [](LinkerInvariant /\ Carried)
<1>1. Init => LinkerInvariant /\ Carried
  BY InitTyped, InitLaid, InitTraced DEF LinkerInvariant, Init, Carried
<1>2. LinkerInvariant /\ Carried /\ [Next]_vars => LinkerInvariant' /\ Carried'
  BY NextTyped, NextLaid, NextTraced, CarriedNext DEF LinkerInvariant
<1>. QED
  BY <1>1, <1>2, PTL DEF Spec

\* A relocation stays on its instruction, and one of the first file on its
\* symbol.
THEOREM RelocsFollowTextAlways == Spec => []RelocsFollowText
<1>1. LinkerInvariant /\ Carried => RelocsFollowText
  <2>. SUFFICES ASSUME LinkerInvariant, Carried, NEW f \in Merged,
                       NEW n \in DOMAIN files[f].relocs
       PROVE  LET reloc == files[f].relocs[n]
                  placed == reloctable[RelocPosition(f, n)]
              IN  /\ CopiedTo(f, "text", placed.offset - reloc.offset)
                  /\ f = 1 /\ reloc.index >= 3 =>
                        SymbolAt(symtable, placed.index).name
                            = SymbolAt(files[1].symbols, reloc.index).name
    BY DEF RelocsFollowText
  <2>. DEFINE reloc == files[f].relocs[n]
              placed == reloctable[RelocPosition(f, n)]
  <2>1. /\ files \in Inputs /\ f \in 1 .. Len(files) /\ f \in DOMAIN files
        /\ f \in 1 .. i - 1 /\ phase # "load"
    BY DEF Merged, LinkerInvariant, TypeOK, Loaded
  <2>2. placed = MovedReloc(files, f, n)
    <3>1. RelocPosition(f, n) = RelocBase(files, f) + n
      BY DEF RelocPosition, RelocBase, RelocCounts
    <3>. QED
      BY <2>1, <3>1 DEF Carried, MergedRelocs
  <2>3. /\ WellFormed(files[f]) /\ SectionLength(files[f]) \in [Contents -> Nat]
        /\ files[f].relocs \in Seq(Relocation)
    BY <2>1, InputGiven DEF Image
  <2>4. /\ reloc \in Relocation /\ HasIndex(files[f].symbols, reloc.index)
        /\ reloc.offset + InstructionSize <= SectionLength(files[f]).text
    BY <2>3, ElementTyped DEF WellFormed
  <2>5. /\ placed.offset = reloc.offset + Place(files, f, "text")
        /\ f = 1 => placed.index = reloc.index + 0 - 3 * 1
    <3>1. Places(files, f).text = Place(files, f, "text")
      BY DEF Places, Contents
    <3>2. 1 > 1 <=> FALSE
      OBVIOUS
    <3>. HIDE DEF reloc, placed
    <3>3. placed = MovedRelocation(reloc, f, Base(files, f + 1), Places(files, f))
      BY <2>2 DEF MovedReloc, reloc
    <3>. QED
      BY <3>1, <3>2, <3>3 DEF MovedRelocation
  <2>. HIDE DEF reloc, placed
  <2>6. CopiedTo(f, "text", placed.offset - reloc.offset)
    <3>1. "text" \in Contents /\ reloc.offset \in Nat /\ f \in 1 .. Len(files) + 1
      BY <2>1, <2>4 DEF Contents, Relocation
    <3>2. Place(files, f, "text") \in Nat
      BY <2>1, <3>1, ExtraTyped
    <3>3. placed.offset - reloc.offset = Place(files, f, "text")
      BY <2>5, <3>1, <3>2
    <3>4. SectionLength(files[f])["text"] > 0
      BY <2>3, <2>4, <3>1 DEF InstructionSize
    <3>. QED
      BY <3>1, <3>3, <3>4, CopyFound
  <2>7. ASSUME f = 1, reloc.index >= 3
        PROVE  SymbolAt(symtable, placed.index).name
                   = SymbolAt(files[1].symbols, reloc.index).name
    <3>1. reloc.index \in Nat /\ placed.index = reloc.index - 3
      BY <2>4, <2>5, <2>7 DEF Relocation
    <3>. QED
      BY <2>4, <2>7, <3>1, FirstFileNames
  <2>. QED
    BY <2>6, <2>7 DEF reloc, placed
<1>. QED
  BY <1>1, CarriedAlways, PTL

-----------------------------------------------------------------------------
(* The merged context on its own, as the loader takes it over.             *)

\* A symbol moved with its file lies within the section merged so far.
LEMMA MovedSound ==
    ASSUME NEW given \in Inputs, NEW m \in 1 .. Len(given) + 1, NEW f \in 1 .. m - 1,
           NEW n \in DOMAIN OwnOf(given, f)
    PROVE  Sound(Moved(given, f, n), Places(given, m))
<1>. DEFINE symbol == OwnOf(given, f)[n]
            moved == Moved(given, f, n)
            s == symbol.section
<1>1. f \in 1 .. Len(given) /\ f \in 1 .. Len(given) + 1 /\ f < m
  <2>1. Len(given) \in Nat
    BY BasesTyped, InputsAssumption
  <2>. QED
    BY <2>1
<1>2. /\ moved.section = s /\ moved.type = symbol.type /\ moved.size = symbol.size
      /\ s # "none" => s \in Contents /\ moved.offset = symbol.offset + Place(given, f, s)
  BY <1>1, MovedKeeps
<1>3. /\ symbol \in Symbol(Names)
      /\ symbol.type = "extern" => s = "none"
      /\ symbol.type = "function" => s = "text"
      /\ s # "none" => symbol.size <= symbol.offset /\ symbol.offset <= LengthsOf(given, s)[f]
  BY <1>1, OwnSymbolSound
<1>4. symbol.size \in Nat /\ symbol.offset \in Nat
  BY <1>3 DEF Symbol
<1>. HIDE DEF symbol, moved, s
<1>5. ASSUME s # "none"
      PROVE  moved.size <= moved.offset /\ moved.offset <= Places(given, m)[moved.section]
  <2>1. s \in Contents
    BY <1>2, <1>5
  <2>2. Place(given, f, s) + LengthsOf(given, s)[f] <= Place(given, m, s)
    BY <1>1, <2>1, LaterPlace
  <2>3. /\ Place(given, f, s) \in Nat /\ Place(given, m, s) \in Nat
        /\ LengthsOf(given, s)[f] \in Nat
    BY <1>1, <2>1, ExtraTyped, PlacesTyped
  <2>4. Places(given, m)[moved.section] = Place(given, m, s)
    BY <1>2, <2>1 DEF Places
  <2>. QED
    BY <1>2, <1>3, <1>4, <1>5, <2>2, <2>3, <2>4
<1>. QED
  BY <1>2, <1>3, <1>5 DEF Sound, moved

\* Where a merged relocation comes from.
LEMMA RelocWithin ==
    ASSUME NEW given \in Inputs, NEW f \in 1 .. Len(given), NEW n \in DOMAIN given[f].relocs
    PROVE  LET reloc == given[f].relocs[n]
               here == Place(given, f, "text")
           IN  /\ reloc.offset \in Nat /\ here \in Nat
               /\ n \in 1 .. Len(given[f].relocs) /\ Len(given[f].relocs) \in Nat
               /\ LengthsOf(given, "text")[f] \in Nat
               /\ reloc.offset + InstructionSize <= LengthsOf(given, "text")[f]
               /\ \A j \in 1 .. n - 1 : given[f].relocs[j].offset < reloc.offset
               /\ MovedReloc(given, f, n).offset = reloc.offset + here
<1>. DEFINE relocs == given[f].relocs
            reloc == relocs[n]
<1>1. /\ f \in DOMAIN given /\ f \in 1 .. Len(given) + 1 /\ "text" \in Contents
      /\ LengthsOf(given, "text")[f] \in Nat
  BY PlacesTyped DEF Contents
<1>2. /\ WellFormed(given[f]) /\ relocs \in Seq(Relocation)
      /\ LengthsOf(given, "text")[f] = SectionLength(given[f]).text
  BY <1>1, InputGiven DEF Image, LengthsOf
<1>3. /\ reloc.offset + InstructionSize <= SectionLength(given[f]).text
      /\ \A j \in 1 .. n - 1 : relocs[j].offset < reloc.offset
  BY <1>2 DEF WellFormed
<1>4. /\ reloc.offset \in Nat /\ n \in 1 .. Len(relocs) /\ Len(relocs) \in Nat
  <2>1. n \in 1 .. Len(relocs) /\ Len(relocs) \in Nat
    BY <1>2
  <2>2. reloc \in Relocation
    BY <1>2, ElementTyped
  <2>. QED
    BY <2>1, <2>2 DEF Relocation
<1>5. Place(given, f, "text") \in Nat
  BY <1>1, ExtraTyped
<1>6. Places(given, f).text = Place(given, f, "text")
  BY <1>1 DEF Places
<1>7. MovedReloc(given, f, n).offset = reloc.offset + Place(given, f, "text")
  BY <1>6 DEF MovedReloc, MovedRelocation
<1>. QED
  BY <1>1, <1>2, <1>3, <1>4, <1>5, <1>7

\* Relocations lie within the text and follow its order, within a file and
\* from file to file.
LEMMA MergedRelocsOrdered ==
    ASSUME NEW given \in Inputs, NEW m \in 1 .. Len(given) + 1, NEW table,
           MergedRelocs(given, m, table), NEW k \in DOMAIN table
    PROVE  /\ table[k].offset + InstructionSize <= Place(given, m, "text")
           /\ \A j \in DOMAIN table : j < k => table[j].offset < table[k].offset
<1>1. /\ Len(given) \in Nat /\ "text" \in Contents
      /\ \A f \in 1 .. m - 1 :
            /\ f \in 1 .. Len(given) /\ f \in 1 .. Len(given) + 1 /\ f \in Nat
            /\ f + 1 \in 1 .. Len(given) + 1 /\ f < m
      /\ InstructionSize = 4
  <2>1. Len(given) \in Nat /\ "text" \in Contents
    BY PlacesTyped DEF Contents
  <2>. QED
    BY <2>1 DEF InstructionSize
<1>a. PICK f \in 1 .. m - 1 : \E n \in DOMAIN given[f].relocs : k = RelocBase(given, f) + n
  BY DEF MergedRelocs
<1>2. PICK n \in DOMAIN given[f].relocs : k = RelocBase(given, f) + n
  BY <1>a
<1>. DEFINE reloc == given[f].relocs[n]
            here == Place(given, f, "text")
            length == LengthsOf(given, "text")[f]
<1>3. /\ reloc.offset \in Nat /\ here \in Nat /\ length \in Nat
      /\ n \in 1 .. Len(given[f].relocs) /\ Len(given[f].relocs) \in Nat
      /\ reloc.offset + InstructionSize <= length
      /\ \A j \in 1 .. n - 1 : given[f].relocs[j].offset < reloc.offset
      /\ table[k].offset = reloc.offset + here
  <2>1. table[k] = MovedReloc(given, f, n)
    BY <1>2 DEF MergedRelocs
  <2>. QED
    BY <1>1, <2>1, RelocWithin
<1>4. here + length <= Place(given, m, "text") /\ Place(given, m, "text") \in Nat
  BY <1>1, LaterPlace, ExtraTyped
<1>5. table[k].offset + InstructionSize <= Place(given, m, "text")
  <2>. HIDE DEF reloc, here, length
  <2>. QED
    BY <1>1, <1>3, <1>4
<1>6. ASSUME NEW j \in DOMAIN table, j < k
      PROVE  table[j].offset < table[k].offset
  <2>a. PICK g \in 1 .. m - 1 : \E l \in DOMAIN given[g].relocs : j = RelocBase(given, g) + l
    BY DEF MergedRelocs
  <2>1. PICK l \in DOMAIN given[g].relocs : j = RelocBase(given, g) + l
    BY <2>a
  <2>. DEFINE earlier == given[g].relocs[l]
              there == Place(given, g, "text")
              extent == LengthsOf(given, "text")[g]
  <2>2. /\ earlier.offset \in Nat /\ there \in Nat /\ extent \in Nat
        /\ l \in 1 .. Len(given[g].relocs)
        /\ earlier.offset + InstructionSize <= extent
        /\ table[j].offset = earlier.offset + there
    <3>1. table[j] = MovedReloc(given, g, l)
      BY <2>1 DEF MergedRelocs
    <3>. QED
      BY <1>1, <3>1, RelocWithin
  <2>3. /\ RelocBase(given, f) \in Nat /\ RelocBase(given, g) \in Nat
        /\ RelocBase(given, f + 1) = RelocBase(given, f) + Len(given[f].relocs)
        /\ f + 1 <= g => RelocBase(given, f + 1) <= RelocBase(given, g)
    BY <1>1, RelocBasesTyped
  <2>4. CASE g = f
    <3>1. l \in 1 .. n - 1
      BY <1>2, <1>3, <1>6, <2>1, <2>2, <2>3, <2>4
    <3>2. earlier.offset < reloc.offset /\ there = here
      BY <1>3, <2>4, <3>1
    <3>. HIDE DEF reloc, here, length, earlier, there, extent
    <3>. QED
      BY <1>3, <2>2, <3>2
  <2>5. CASE g < f
    <3>1. there + extent <= here
      BY <1>1, <2>5, LaterPlace
    <3>. HIDE DEF reloc, here, length, earlier, there, extent
    <3>2. earlier.offset + 4 <= extent
      BY <1>1, <2>2
    <3>3. earlier.offset + there < here
      BY <1>3, <2>2, <3>1, <3>2
    <3>4. here <= reloc.offset + here
      BY <1>3
    <3>5. earlier.offset + there < reloc.offset + here
      BY <1>3, <2>2, <3>3, <3>4
    <3>. QED
      BY <1>3, <2>2, <3>5
  <2>6. CASE f < g
    <3>1. f + 1 <= g
      BY <1>1, <2>6
    <3>. HIDE DEF reloc, here, length, earlier, there, extent
    <3>. QED
      BY <1>2, <1>3, <1>6, <2>1, <2>2, <2>3, <3>1
  <2>. QED
    BY <1>1, <2>4, <2>5, <2>6
<1>. QED
  BY <1>5, <1>6

\* The context that a link leaves is one that the loader can build on: what
\* module Loader assumes of symbols and relocations holds for everything the
\* linker makes of well formed objects.
THEOREM ContextSoundAlways == Spec => []ContextSound
<1>1. LinkerInvariant /\ Carried => ContextSound
  <2>. SUFFICES ASSUME LinkerInvariant, Carried, phase # "load" PROVE ContextSound
    BY DEF ContextSound
  <2>1. /\ files \in Inputs /\ i \in 1 .. Len(files) + 1
        /\ section_offset = Places(files, i)
    <3>1. \A s \in Contents : section_offset[s] = Place(files, i, s)
      BY DEF LinkerInvariant, Laid
    <3>2. section_offset \in [Contents -> Nat]
      BY DEF LinkerInvariant, TypeOK
    <3>. QED
      BY <3>1, <3>2 DEF Places, LinkerInvariant, TypeOK, Loaded
  <2>2. PICK original \in Seq(Symbol(Names)) :
          MergedTable(files, i, original) /\ Resolved(original, symtable, current)
    BY DEF LinkerInvariant, Traced
  <2>3. \A k \in DOMAIN original : Sound(original[k], section_offset)
    <3>. SUFFICES ASSUME NEW k \in DOMAIN original PROVE Sound(original[k], section_offset)
      OBVIOUS
    <3>1. PICK f \in 1 .. i - 1 : \E n \in DOMAIN OwnOf(files, f) : k = Base(files, f) + n
      BY <2>2 DEF MergedTable
    <3>2. PICK n \in DOMAIN OwnOf(files, f) : k = Base(files, f) + n
      BY <3>1
    <3>3. original[k] = Moved(files, f, n)
      BY <2>2, <3>2 DEF MergedTable
    <3>. QED
      BY <2>1, <3>3, MovedSound
  <2>4. \A k \in DOMAIN symtable : Sound(symtable[k], section_offset)
    <3>. SUFFICES ASSUME NEW k \in DOMAIN symtable PROVE Sound(symtable[k], section_offset)
      OBVIOUS
    <3>1. k \in DOMAIN original
      BY <2>2 DEF Resolved, LinkerInvariant, TypeOK
    <3>2. symtable[k] = original[k] \/ \E j \in DOMAIN original : symtable[k] = original[j]
      BY <2>2, <3>1 DEF Resolved, Filled
    <3>. QED
      BY <2>3, <3>1, <3>2
  <2>5. \A k \in DOMAIN reloctable :
          /\ reloctable[k].offset + InstructionSize <= section_offset["text"]
          /\ \A j \in 1 .. k - 1 : reloctable[j].offset < reloctable[k].offset
    <3>. SUFFICES ASSUME NEW k \in DOMAIN reloctable
                  PROVE  /\ reloctable[k].offset + InstructionSize <= section_offset["text"]
                         /\ \A j \in 1 .. k - 1 : reloctable[j].offset < reloctable[k].offset
      OBVIOUS
    <3>1. section_offset["text"] = Place(files, i, "text")
      BY <2>1 DEF Places, Contents
    <3>2. MergedRelocs(files, i, reloctable)
      BY DEF Carried
    <3>3. \A j \in 1 .. k - 1 : j \in DOMAIN reloctable /\ j < k
      <4>1. reloctable \in Seq(Relocation)
        BY DEF LinkerInvariant, TypeOK
      <4>. QED
        BY <4>1
    <3>. QED
      BY <2>1, <3>1, <3>2, <3>3, MergedRelocsOrdered
  <2>. QED
    BY <2>4, <2>5 DEF ContextSound
<1>. QED
  BY <1>1, CarriedAlways, PTL

-----------------------------------------------------------------------------
(***************************************************************************)
(* The linker implements the abstract binding of names (module Binding),   *)
(* for every sequence of well-formed objects.                              *)
(***************************************************************************)


(***************************************************************************)
(* Claims, imports and bindings as functions of the files, of how many of  *)
(* them are merged and of the table, so that what holds of them holds      *)
(* before a step and after it.                                             *)
(***************************************************************************)
BroughtBy(given, m) ==
    UNION {{<<Base(given, f) + n, OwnOf(given, f)[n]>> :
               n \in {l \in DOMAIN OwnOf(given, f) : OwnOf(given, f)[l].scope = "global"}} :
           f \in 1 .. m - 1}
ClaimOf(b, table) ==
    <<b[2].name, IF b[2].section = "none" THEN Nowhere ELSE PlaceOf(table[b[1]])>>
ClaimsOf(given, m, table) ==
    {ClaimOf(b, table) : b \in {c \in BroughtBy(given, m) : ~IsUnresolved(c[2])}}
ImportsOf(given, m) ==
    {<<b[1], b[2].name>> : b \in {c \in BroughtBy(given, m) : IsUnresolved(c[2])}}
BoundOf(imports, table) ==
    {<<l[1], l[2], PlaceOf(table[l[1]])>> :
        l \in {k \in imports : ~IsUnresolved(table[k[1]])}}

LEMMA ViewsBefore ==
    /\ phase = "load" => Brought = {}
    /\ phase # "load" => Brought = BroughtBy(files, i)
BY DEF Brought, BroughtBy, Merged, Own, OwnOf, SymbolPosition, Base, OwnCounts

LEMMA ViewsAfter ==
    /\ phase' = "load" => Brought' = {}
    /\ phase' # "load" => Brought' = BroughtBy(files', i')
BY DEF Brought, BroughtBy, Merged, Own, OwnOf, SymbolPosition, Base, OwnCounts

LEMMA EmptyBefore ==
    ASSUME Brought = {}
    PROVE  ClaimsLaid = {} /\ ImportsMade = {} /\ ImportsBound = {}
BY DEF ClaimsLaid, ImportsMade, ImportsBound

LEMMA EmptyAfter ==
    ASSUME Brought' = {}
    PROVE  ClaimsLaid' = {} /\ ImportsMade' = {} /\ ImportsBound' = {}
BY DEF ClaimsLaid, ImportsMade, ImportsBound

LEMMA SetsBefore ==
    ASSUME phase # "load"
    PROVE  /\ ClaimsLaid = ClaimsOf(files, i, symtable)
           /\ ImportsMade = ImportsOf(files, i)
           /\ ImportsBound = BoundOf(ImportsOf(files, i), symtable)
<1>1. Brought = BroughtBy(files, i)
  BY ViewsBefore
<1>2. ImportsMade = ImportsOf(files, i)
  BY <1>1 DEF ImportsMade, ImportsOf
<1>. QED
  BY <1>1, <1>2 DEF ClaimsLaid, ClaimsOf, ClaimOf, ImportsBound, BoundOf

LEMMA SetsAfter ==
    ASSUME phase' # "load"
    PROVE  /\ ClaimsLaid' = ClaimsOf(files', i', symtable')
           /\ ImportsMade' = ImportsOf(files', i')
           /\ ImportsBound' = BoundOf(ImportsOf(files', i'), symtable')
<1>1. Brought' = BroughtBy(files', i')
  BY ViewsAfter
<1>2. ImportsMade' = ImportsOf(files', i')
  BY <1>1 DEF ImportsMade, ImportsOf
<1>. QED
  BY <1>1, <1>2 DEF ClaimsLaid, ClaimsOf, ClaimOf, ImportsBound, BoundOf

-----------------------------------------------------------------------------
(* What files brought and what the table holds.                            *)

LEMMA BroughtSymbol ==
    ASSUME NEW given \in Inputs, NEW m \in 1 .. Len(given) + 1,
           NEW b \in BroughtBy(given, m)
    PROVE  \E f \in 1 .. m - 1 : \E n \in DOMAIN OwnOf(given, f) :
              /\ f \in 1 .. Len(given)
              /\ b = <<Base(given, f) + n, OwnOf(given, f)[n]>>
              /\ b[2] \in Symbol(Names)
              /\ b[2].scope = "global"
              /\ b[2].section # "none" => b[2].type # "extern"
<1>1. PICK f \in 1 .. m - 1 : \E n \in DOMAIN OwnOf(given, f) :
        /\ OwnOf(given, f)[n].scope = "global"
        /\ b = <<Base(given, f) + n, OwnOf(given, f)[n]>>
  BY DEF BroughtBy
<1>2. PICK n \in DOMAIN OwnOf(given, f) :
        /\ OwnOf(given, f)[n].scope = "global"
        /\ b = <<Base(given, f) + n, OwnOf(given, f)[n]>>
  BY <1>1
<1>3. f \in 1 .. Len(given) /\ DOMAIN given = 1 .. Len(given)
  <2>1. given \in Seq(Image)
    BY InputsAssumption
  <2>. QED
    BY <2>1
<1>4. b[2] \in Symbol(Names)
  BY <1>2, <1>3, MovedKeeps
<1>5. b[2].type = "extern" => b[2].section = "none"
  <2>. DEFINE entries == given[f].symbols
  <2>1. WellFormed(given[f]) /\ entries \in Seq(Symbol(Names))
    BY <1>3, InputGiven DEF Image
  <2>2. n + 3 \in DOMAIN entries /\ OwnOf(given, f)[n] = entries[n + 3]
    BY <1>2, <2>1 DEF OwnOf, OwnSymbols
  <2>3. entries[n + 3].type = "extern" => entries[n + 3].section = "none"
    BY <2>1, <2>2 DEF WellFormed
  <2>. QED
    BY <1>2, <2>2, <2>3
<1>. QED
  BY <1>2, <1>3, <1>4, <1>5

LEMMA BroughtEntry ==
    ASSUME NEW given \in Inputs, NEW m \in 1 .. Len(given) + 1,
           NEW original \in Seq(Symbol(Names)), MergedTable(given, m, original),
           NEW b \in BroughtBy(given, m)
    PROVE  /\ b[1] \in DOMAIN original
           /\ b[2].scope = "global"
           /\ b[2].section # "none" => b[2].type # "extern"
           /\ \E f \in 1 .. m - 1 : \E n \in DOMAIN OwnOf(given, f) :
                 b = <<Base(given, f) + n, OwnOf(given, f)[n]>>
                 /\ original[b[1]] = Moved(given, f, n)
           /\ original[b[1]].name = b[2].name /\ original[b[1]].scope = b[2].scope
           /\ original[b[1]].section = b[2].section /\ original[b[1]].type = b[2].type
<1>1. PICK f \in 1 .. m - 1 : \E n \in DOMAIN OwnOf(given, f) :
        /\ f \in 1 .. Len(given)
        /\ b = <<Base(given, f) + n, OwnOf(given, f)[n]>>
        /\ b[2].scope = "global"
        /\ b[2].section # "none" => b[2].type # "extern"
  BY BroughtSymbol
<1>2. PICK n \in DOMAIN OwnOf(given, f) :
        /\ f \in 1 .. Len(given)
        /\ b = <<Base(given, f) + n, OwnOf(given, f)[n]>>
        /\ b[2].scope = "global"
        /\ b[2].section # "none" => b[2].type # "extern"
  BY <1>1
<1>3. /\ Base(given, f) + n \in DOMAIN original
      /\ original[Base(given, f) + n] = Moved(given, f, n)
  BY <1>2 DEF MergedTable
<1>4. LET moved == Moved(given, f, n)
          symbol == OwnOf(given, f)[n]
      IN  /\ moved.name = symbol.name /\ moved.scope = symbol.scope
          /\ moved.section = symbol.section /\ moved.type = symbol.type
  BY <1>2, MovedKeeps
<1>5. b[1] = Base(given, f) + n /\ b[2] = OwnOf(given, f)[n]
  BY <1>2
<1>. QED
  BY <1>2, <1>3, <1>4, <1>5

\* A global symbol that is no import is in the table as it was merged.
LEMMA ClaimStands ==
    ASSUME NEW given \in Inputs, NEW m \in 1 .. Len(given) + 1,
           NEW original \in Seq(Symbol(Names)), NEW table \in Seq(Symbol(Names)), NEW c,
           MergedTable(given, m, original), Resolved(original, table, c),
           NEW b \in BroughtBy(given, m)
    PROVE  /\ b[1] \in DOMAIN table
           /\ table[b[1]].name = b[2].name /\ table[b[1]].scope = "global"
           /\ ~IsUnresolved(b[2]) =>
                 /\ table[b[1]] = original[b[1]]
                 /\ ~IsUnresolved(table[b[1]])
                 /\ table[b[1]].section = b[2].section /\ table[b[1]].type = b[2].type
           /\ ~IsUnresolved(b[2]) /\ b[2].section # "none" => IsDefinition(table[b[1]])
<1>. DEFINE k == b[1]
<1>1. /\ k \in DOMAIN original /\ b[2].scope = "global"
      /\ b[2].section # "none" => b[2].type # "extern"
      /\ original[k].name = b[2].name /\ original[k].scope = b[2].scope
      /\ original[k].section = b[2].section /\ original[k].type = b[2].type
  BY BroughtEntry
<1>2. k \in DOMAIN table /\ (table[k] = original[k] \/ Filled(original, table, c, k))
  BY <1>1 DEF Resolved
<1>. HIDE DEF k
<1>3. CASE table[k] = original[k]
  BY <1>1, <1>2, <1>3 DEF IsUnresolved, IsDefinition, k
<1>4. CASE Filled(original, table, c, k)
  <2>1. PICK j \in DOMAIN original :
          /\ IsDefinition(original[j]) /\ original[j].name = original[k].name
          /\ table[k] = original[j]
    BY <1>4 DEF Filled
  <2>2. IsUnresolved(b[2])
    BY <1>1, <1>4 DEF Filled, IsUnresolved
  <2>3. table[k].name = b[2].name /\ table[k].scope = "global"
    BY <1>1, <2>1 DEF IsDefinition
  <2>. QED
    BY <1>2, <2>2, <2>3 DEF k
<1>. QED
  BY <1>2, <1>3, <1>4

\* Every global entry was brought by a file.
LEMMA EntryBrought ==
    ASSUME NEW given \in Inputs, NEW m \in 1 .. Len(given) + 1,
           NEW original \in Seq(Symbol(Names)), MergedTable(given, m, original),
           NEW k \in DOMAIN original, original[k].scope = "global"
    PROVE  \E b \in BroughtBy(given, m) : b[1] = k
<1>1. PICK f \in 1 .. m - 1 : \E n \in DOMAIN OwnOf(given, f) : k = Base(given, f) + n
  BY DEF MergedTable
<1>2. PICK n \in DOMAIN OwnOf(given, f) : k = Base(given, f) + n
  BY <1>1
<1>3. original[k] = Moved(given, f, n)
  BY <1>2 DEF MergedTable
<1>4. f \in 1 .. Len(given)
  <2>1. given \in Seq(Image)
    BY InputsAssumption
  <2>. QED
    BY <2>1
<1>5. OwnOf(given, f)[n].scope = "global"
  BY <1>3, <1>4, MovedKeeps
<1>6. <<k, OwnOf(given, f)[n]>> \in BroughtBy(given, m)
  BY <1>2, <1>5 DEF BroughtBy
<1>. QED
  BY <1>6

LEMMA PlacesSame ==
    ASSUME NEW s, NEW t
    PROVE  /\ SameDefinition(s, t) <=> PlaceOf(s) = PlaceOf(t)
           /\ s.section # "none" => PlaceOf(s) # Nowhere
<1>1. /\ PlaceOf(s).section = s.section /\ PlaceOf(s).type = s.type
      /\ PlaceOf(s).offset = s.offset /\ PlaceOf(s).size = s.size
  BY DEF PlaceOf
<1>2. /\ PlaceOf(t).section = t.section /\ PlaceOf(t).type = t.type
      /\ PlaceOf(t).offset = t.offset /\ PlaceOf(t).size = t.size
  BY DEF PlaceOf
<1>3. SameDefinition(s, t) => PlaceOf(s) = PlaceOf(t)
  BY DEF SameDefinition, PlaceOf
<1>4. PlaceOf(s) = PlaceOf(t) => SameDefinition(s, t)
  BY <1>1, <1>2 DEF SameDefinition
<1>5. Nowhere.section = "none"
  BY DEF Nowhere
<1>. QED
  BY <1>1, <1>3, <1>4, <1>5

-----------------------------------------------------------------------------
(* Claims and bindings in a table that resolution has reached.             *)

\* A real claim is that of a definition in the table.
LEMMA DefinitionEntry ==
    ASSUME NEW given \in Inputs, NEW m \in 1 .. Len(given) + 1,
           NEW original \in Seq(Symbol(Names)), NEW table \in Seq(Symbol(Names)), NEW c,
           MergedTable(given, m, original), Resolved(original, table, c),
           NEW d \in ClaimsOf(given, m, table), d[2] # Nowhere
    PROVE  \E k \in DOMAIN table :
              /\ IsDefinition(table[k])
              /\ d[1] = table[k].name /\ d[2] = PlaceOf(table[k])
<1>1. PICK b \in BroughtBy(given, m) : ~IsUnresolved(b[2]) /\ d = ClaimOf(b, table)
  BY DEF ClaimsOf
<1>2. b[2].section # "none"
  BY <1>1 DEF ClaimOf
<1>3. d[1] = b[2].name /\ d[2] = PlaceOf(table[b[1]])
  BY <1>1, <1>2 DEF ClaimOf
<1>4. b[1] \in DOMAIN table /\ IsDefinition(table[b[1]]) /\ table[b[1]].name = b[2].name
  BY <1>1, <1>2, ClaimStands
<1>. QED
  BY <1>3, <1>4

\* Any claim is that of a global entry, and of its place when that is real.
LEMMA ClaimEntry ==
    ASSUME NEW given \in Inputs, NEW m \in 1 .. Len(given) + 1,
           NEW original \in Seq(Symbol(Names)), NEW table \in Seq(Symbol(Names)), NEW c,
           MergedTable(given, m, original), Resolved(original, table, c),
           NEW d \in ClaimsOf(given, m, table)
    PROVE  \E k \in DOMAIN table :
              /\ table[k].scope = "global" /\ table[k].name = d[1]
              /\ ~IsUnresolved(table[k])
              /\ d[2] = IF table[k].section = "none" THEN Nowhere ELSE PlaceOf(table[k])
<1>1. PICK b \in BroughtBy(given, m) : ~IsUnresolved(b[2]) /\ d = ClaimOf(b, table)
  BY DEF ClaimsOf
<1>2. /\ b[1] \in DOMAIN table
      /\ table[b[1]].name = b[2].name /\ table[b[1]].scope = "global"
      /\ ~IsUnresolved(table[b[1]]) /\ table[b[1]].section = b[2].section
  BY <1>1, ClaimStands
<1>3. d[1] = b[2].name /\ d[2] = IF b[2].section = "none" THEN Nowhere ELSE PlaceOf(table[b[1]])
  BY <1>1 DEF ClaimOf
<1>. QED
  BY <1>2, <1>3

\* A global entry as it was merged, if no import, is claimed.
LEMMA OriginalClaimed ==
    ASSUME NEW given \in Inputs, NEW m \in 1 .. Len(given) + 1,
           NEW original \in Seq(Symbol(Names)), NEW table \in Seq(Symbol(Names)), NEW c,
           MergedTable(given, m, original), Resolved(original, table, c),
           NEW k \in DOMAIN original, original[k].scope = "global", ~IsUnresolved(original[k])
    PROVE  <<original[k].name, IF original[k].section = "none" THEN Nowhere
                               ELSE PlaceOf(original[k])>> \in ClaimsOf(given, m, table)
<1>1. PICK b \in BroughtBy(given, m) : b[1] = k
  BY EntryBrought
<1>2. /\ original[k].name = b[2].name
      /\ original[k].section = b[2].section /\ original[k].type = b[2].type
  BY <1>1, BroughtEntry
<1>3. ~IsUnresolved(b[2])
  BY <1>2 DEF IsUnresolved
<1>4. table[k] = original[k]
  BY <1>1, <1>3, ClaimStands
<1>5. ClaimOf(b, table) \in ClaimsOf(given, m, table)
  BY <1>3 DEF ClaimsOf
<1>. QED
  BY <1>1, <1>2, <1>4, <1>5 DEF ClaimOf

\* Every definition in the table, a filled import included, is claimed.
LEMMA DefinitionClaimed ==
    ASSUME NEW given \in Inputs, NEW m \in 1 .. Len(given) + 1,
           NEW original \in Seq(Symbol(Names)), NEW table \in Seq(Symbol(Names)), NEW c,
           MergedTable(given, m, original), Resolved(original, table, c),
           NEW k \in DOMAIN table, IsDefinition(table[k])
    PROVE  /\ <<table[k].name, PlaceOf(table[k])>> \in ClaimsOf(given, m, table)
           /\ PlaceOf(table[k]) # Nowhere
<1>1. \E j \in DOMAIN original : table[k] = original[j]
  <2>1. k \in DOMAIN original /\ (table[k] = original[k] \/ Filled(original, table, c, k))
    BY DEF Resolved
  <2>. QED
    BY <2>1 DEF Filled
<1>2. PICK j \in DOMAIN original : table[k] = original[j]
  BY <1>1
<1>3. /\ original[j].scope = "global" /\ original[j].section # "none"
      /\ ~IsUnresolved(original[j])
  BY <1>2 DEF IsDefinition, IsUnresolved
<1>4. <<original[j].name, PlaceOf(original[j])>> \in ClaimsOf(given, m, table)
  BY <1>3, OriginalClaimed
<1>. QED
  BY <1>2, <1>3, <1>4, PlacesSame

\* Claims do not depend on how far resolution has come.
LEMMA ClaimsStay ==
    ASSUME NEW given \in Inputs, NEW m \in 1 .. Len(given) + 1,
           NEW original \in Seq(Symbol(Names)),
           NEW table \in Seq(Symbol(Names)), NEW c,
           NEW after \in Seq(Symbol(Names)), NEW e,
           MergedTable(given, m, original),
           Resolved(original, table, c), Resolved(original, after, e)
    PROVE  ClaimsOf(given, m, after) = ClaimsOf(given, m, table)
<1>1. ASSUME NEW b \in BroughtBy(given, m), ~IsUnresolved(b[2])
      PROVE  after[b[1]] = table[b[1]]
  BY <1>1, ClaimStands
<1>2. ASSUME NEW b \in BroughtBy(given, m), ~IsUnresolved(b[2])
      PROVE  ClaimOf(b, after) = ClaimOf(b, table)
  BY <1>1, <1>2 DEF ClaimOf
<1>. QED
  BY <1>2 DEF ClaimsOf

LEMMA ImportEntry ==
    ASSUME NEW given \in Inputs, NEW m \in 1 .. Len(given) + 1,
           NEW original \in Seq(Symbol(Names)), NEW table \in Seq(Symbol(Names)), NEW c,
           MergedTable(given, m, original), Resolved(original, table, c),
           NEW l \in ImportsOf(given, m)
    PROVE  /\ l[1] \in DOMAIN table /\ table[l[1]].name = l[2]
           /\ table[l[1]].scope = "global"
           /\ l = <<l[1], l[2]>>
<1>1. PICK b \in BroughtBy(given, m) : IsUnresolved(b[2]) /\ l = <<b[1], b[2].name>>
  BY DEF ImportsOf
<1>2. b[1] \in DOMAIN table /\ table[b[1]].name = b[2].name /\ table[b[1]].scope = "global"
  BY ClaimStands
<1>. QED
  BY <1>1, <1>2

-----------------------------------------------------------------------------
(* The steps.                                                              *)

LEMMA VerdictOfPhase ==
    /\ phase = "linked" => BindingVerdict = "linked"
    /\ phase = "failed" => BindingVerdict = "refused"
    /\ phase \in {"load", "merge", "resolve", "crashed"} => BindingVerdict = "open"
BY DEF BindingVerdict

LEMMA VerdictAfter ==
    /\ phase' = "linked" => BindingVerdict' = "linked"
    /\ phase' = "failed" => BindingVerdict' = "refused"
    /\ phase' \in {"load", "merge", "resolve", "crashed"} => BindingVerdict' = "open"
BY DEF BindingVerdict

\* In a table as merged no import is bound.
LEMMA MergedUnbound ==
    ASSUME NEW given \in Inputs, NEW m \in 1 .. Len(given) + 1,
           NEW original \in Seq(Symbol(Names)), MergedTable(given, m, original)
    PROVE  BoundOf(ImportsOf(given, m), original) = {}
<1>1. ASSUME NEW l \in ImportsOf(given, m) PROVE IsUnresolved(original[l[1]])
  <2>1. PICK b \in BroughtBy(given, m) : IsUnresolved(b[2]) /\ l = <<b[1], b[2].name>>
    BY DEF ImportsOf
  <2>2. original[b[1]].section = b[2].section /\ original[b[1]].type = b[2].type
    BY BroughtEntry
  <2>. QED
    BY <2>1, <2>2 DEF IsUnresolved
<1>. QED
  BY <1>1 DEF BoundOf

\* A file merged only adds claims and imports.
LEMMA MoreBrought ==
    ASSUME NEW given \in Inputs, NEW m \in 1 .. Len(given),
           NEW original \in Seq(Symbol(Names)), MergedTable(given, m, original),
           NEW after \in Seq(Symbol(Names)), MergedTable(given, m + 1, after)
    PROVE  /\ ClaimsOf(given, m, original) \subseteq ClaimsOf(given, m + 1, after)
           /\ ImportsOf(given, m) \subseteq ImportsOf(given, m + 1)
<1>1. m \in 1 .. Len(given) + 1 /\ m + 1 \in 1 .. Len(given) + 1 /\ m \in Nat
  BY PlacesTyped
<1>2. BroughtBy(given, m) \subseteq BroughtBy(given, m + 1)
  <2>1. 1 .. m - 1 \subseteq 1 .. (m + 1) - 1
    BY <1>1
  <2>. QED
    BY <2>1 DEF BroughtBy
<1>3. ASSUME NEW b \in BroughtBy(given, m) PROVE after[b[1]] = original[b[1]]
  <2>1. PICK f \in 1 .. m - 1 : \E n \in DOMAIN OwnOf(given, f) :
          b = <<Base(given, f) + n, OwnOf(given, f)[n]>>
    BY DEF BroughtBy
  <2>2. PICK n \in DOMAIN OwnOf(given, f) : b = <<Base(given, f) + n, OwnOf(given, f)[n]>>
    BY <2>1
  <2>3. f \in 1 .. (m + 1) - 1
    BY <1>1
  <2>4. /\ original[Base(given, f) + n] = Moved(given, f, n)
        /\ after[Base(given, f) + n] = Moved(given, f, n)
    BY <2>2, <2>3 DEF MergedTable
  <2>. QED
    BY <2>2, <2>4
<1>4. ASSUME NEW b \in BroughtBy(given, m) PROVE ClaimOf(b, after) = ClaimOf(b, original)
  BY <1>3 DEF ClaimOf
<1>. QED
  BY <1>2, <1>4 DEF ClaimsOf, ImportsOf

\* Resolving an entry binds all imports of its name to it, whether they were
\* bound to that place already or not.
LEMMA BindingGrows ==
    ASSUME NEW given \in Inputs, NEW m \in 1 .. Len(given) + 1,
           NEW original \in Seq(Symbol(Names)), NEW table \in Seq(Symbol(Names)),
           NEW c \in DOMAIN table,
           MergedTable(given, m, original), Resolved(original, table, c),
           IsDefinition(table[c]), ~Conflicts(table, table[c])
    PROVE  LET imports == ImportsOf(given, m)
           IN  BoundOf(imports, Propagate(table, table[c])) =
                 BoundOf(imports, table) \cup
                   {<<l[1], l[2], PlaceOf(table[c])>> : l \in {n \in imports : n[2] = table[c].name}}
<1>. DEFINE imports == ImportsOf(given, m)
            d == table[c]
            after == Propagate(table, d)
            fresh == {<<l[1], l[2], PlaceOf(d)>> : l \in {n \in imports : n[2] = d.name}}
<1>1. ASSUME NEW l \in imports
      PROVE  /\ l[1] \in DOMAIN table /\ table[l[1]].name = l[2]
             /\ table[l[1]].scope = "global"
  BY ImportEntry
<1>2. ASSUME NEW l \in imports
      PROVE  l[2] = d.name =>
                /\ ~IsUnresolved(after[l[1]])
                /\ PlaceOf(after[l[1]]) = PlaceOf(d)
                /\ ~IsUnresolved(table[l[1]]) => PlaceOf(table[l[1]]) = PlaceOf(d)
  <2>. SUFFICES ASSUME l[2] = d.name
                PROVE  /\ ~IsUnresolved(after[l[1]])
                       /\ PlaceOf(after[l[1]]) = PlaceOf(d)
                       /\ ~IsUnresolved(table[l[1]]) => PlaceOf(table[l[1]]) = PlaceOf(d)
    OBVIOUS
  <2>1. l[1] \in DOMAIN table /\ l[1] \in Namesakes(table, d)
    BY <1>1 DEF Namesakes
  <2>2. CASE IsUnresolved(table[l[1]])
    <3>1. after[l[1]] = d
      BY <2>1, <2>2, PropagateEntry
    <3>. QED
      BY <2>2, <3>1 DEF IsDefinition, IsUnresolved
  <2>3. CASE ~IsUnresolved(table[l[1]])
    <3>1. after[l[1]] = table[l[1]]
      BY <2>1, <2>3, PropagateEntry
    <3>2. SameDefinition(table[l[1]], d)
      BY <2>1, <2>3 DEF Conflicts
    <3>3. PlaceOf(table[l[1]]) = PlaceOf(d)
      BY <3>2, PlacesSame
    <3>. QED
      BY <2>3, <3>1, <3>3
  <2>. QED
    BY <2>2, <2>3
<1>3. ASSUME NEW l \in imports PROVE l[2] # d.name => after[l[1]] = table[l[1]]
  <2>1. l[2] # d.name => l[1] \notin Namesakes(table, d)
    BY <1>1 DEF Namesakes
  <2>. QED
    BY <1>1, <2>1, PropagateEntry
<1>. HIDE DEF imports, d, after
<1>4. ASSUME NEW x \in BoundOf(imports, after)
      PROVE  x \in BoundOf(imports, table) \cup fresh
  <2>1. PICK l \in imports :
          ~IsUnresolved(after[l[1]]) /\ x = <<l[1], l[2], PlaceOf(after[l[1]])>>
    BY DEF BoundOf
  <2>2. CASE l[2] = d.name
    <3>1. x = <<l[1], l[2], PlaceOf(d)>>
      BY <1>2, <2>1, <2>2
    <3>. QED
      BY <2>2, <3>1
  <2>3. CASE l[2] # d.name
    <3>1. ~IsUnresolved(table[l[1]]) /\ x = <<l[1], l[2], PlaceOf(table[l[1]])>>
      BY <1>3, <2>1, <2>3
    <3>2. x \in BoundOf(imports, table)
      BY <3>1 DEF BoundOf
    <3>. QED
      BY <3>2
  <2>. QED
    BY <2>2, <2>3
<1>5. ASSUME NEW x \in BoundOf(imports, table) PROVE x \in BoundOf(imports, after)
  <2>1. PICK l \in imports :
          ~IsUnresolved(table[l[1]]) /\ x = <<l[1], l[2], PlaceOf(table[l[1]])>>
    BY DEF BoundOf
  <2>2. ~IsUnresolved(after[l[1]]) /\ PlaceOf(after[l[1]]) = PlaceOf(table[l[1]])
    BY <1>2, <1>3, <2>1
  <2>3. x = <<l[1], l[2], PlaceOf(after[l[1]])>>
    BY <2>1, <2>2
  <2>. QED
    BY <2>2, <2>3 DEF BoundOf
<1>6. ASSUME NEW x \in fresh PROVE x \in BoundOf(imports, after)
  <2>1. PICK l \in imports : l[2] = d.name /\ x = <<l[1], l[2], PlaceOf(d)>>
    OBVIOUS
  <2>2. ~IsUnresolved(after[l[1]]) /\ x = <<l[1], l[2], PlaceOf(after[l[1]])>>
    BY <1>2, <2>1
  <2>. QED
    BY <2>2 DEF BoundOf
<1>. QED
  BY <1>4, <1>5, <1>6 DEF imports, d, after

\* A name without conflict has one claim only.
LEMMA OneClaim ==
    ASSUME NEW given \in Inputs, NEW m \in 1 .. Len(given) + 1,
           NEW original \in Seq(Symbol(Names)), NEW table \in Seq(Symbol(Names)),
           NEW e, NEW c \in DOMAIN table,
           MergedTable(given, m, original), Resolved(original, table, e),
           IsDefinition(table[c]), ~Conflicts(table, table[c]),
           NEW claim \in ClaimsOf(given, m, table), claim[1] = table[c].name
    PROVE  claim[2] = PlaceOf(table[c])
<1>1. PICK k \in DOMAIN table :
        /\ table[k].scope = "global" /\ table[k].name = claim[1]
        /\ ~IsUnresolved(table[k])
        /\ claim[2] = IF table[k].section = "none" THEN Nowhere ELSE PlaceOf(table[k])
  BY ClaimEntry
<1>2. k \in Namesakes(table, table[c])
  BY <1>1 DEF Namesakes
<1>3. SameDefinition(table[k], table[c])
  BY <1>1, <1>2 DEF Conflicts
<1>4. table[k].section # "none"
  BY <1>3 DEF SameDefinition, IsDefinition
<1>. QED
  BY <1>1, <1>3, <1>4, PlacesSame

LEMMA ResolveBinds ==
    ASSUME LinkerInvariant, LinkerInvariant', ResolveSymbol
    PROVE  Abstract!Bind
<1>1. /\ phase = "resolve" /\ phase' = "resolve" /\ files' = files /\ i' = i
      /\ symtable' = Propagate(symtable, symtable[current]) /\ current' = current + 1
      /\ IsDefinition(symtable[current]) /\ ~Conflicts(symtable, symtable[current])
  BY DEF ResolveSymbol, AtSymbol
<1>2. /\ files \in Inputs /\ i \in 1 .. Len(files) + 1
      /\ symtable \in Seq(Symbol(Names)) /\ symtable' \in Seq(Symbol(Names))
      /\ current \in DOMAIN symtable
  BY DEF LinkerInvariant, TypeOK, Loaded, ResolveSymbol, AtSymbol
<1>3. PICK original \in Seq(Symbol(Names)) :
        MergedTable(files, i, original) /\ Resolved(original, symtable, current)
  BY <1>1 DEF LinkerInvariant, Traced
<1>4. Resolved(original, symtable', current + 1)
  BY <1>1, <1>2, <1>3, ResolvedNext
<1>5. /\ ClaimsLaid = ClaimsOf(files, i, symtable)
      /\ ImportsMade = ImportsOf(files, i)
      /\ ImportsBound = BoundOf(ImportsMade, symtable)
  BY <1>1, SetsBefore
<1>6. /\ ClaimsLaid' = ClaimsOf(files, i, symtable')
      /\ ImportsMade' = ImportsMade
      /\ ImportsBound' = BoundOf(ImportsMade, symtable')
  BY <1>1, <1>5, SetsAfter
<1>7. ClaimsLaid' = ClaimsLaid
  BY <1>2, <1>3, <1>4, <1>5, <1>6, ClaimsStay
<1>. DEFINE d == <<symtable[current].name, PlaceOf(symtable[current])>>
<1>8. d \in ClaimsLaid /\ d[2] # Nowhere
  BY <1>1, <1>2, <1>3, <1>5, DefinitionClaimed
<1>9. ASSUME NEW claim \in ClaimsLaid, claim[1] = d[1] PROVE claim[2] = d[2]
  BY <1>1, <1>2, <1>3, <1>5, <1>9, OneClaim
<1>10. ImportsBound' = ImportsBound \cup
         {<<l[1], l[2], d[2]>> : l \in {n \in ImportsMade : n[2] = d[1]}}
  BY <1>1, <1>2, <1>3, <1>5, <1>6, BindingGrows
<1>11. BindingVerdict = "open" /\ BindingVerdict' = "open"
  BY <1>1, VerdictOfPhase, VerdictAfter
<1>. HIDE DEF d
<1>12. d \in Abstract!Definitions /\ ~Abstract!Contested(d[1])
  BY <1>8, <1>9 DEF Abstract!Definitions, Abstract!Contested
<1>. QED
  BY <1>6, <1>7, <1>10, <1>11, <1>12 DEF Abstract!Bind

LEMMA MergeCollects ==
    ASSUME LinkerInvariant, LinkerInvariant', MergeFile
    PROVE  Abstract!Collect
<1>1. /\ phase = "merge" /\ phase' = "merge" /\ i \in 1 .. Len(files) /\ i' = i + 1
      /\ files' = files /\ files \in Inputs
      /\ symtable \in Seq(Symbol(Names)) /\ symtable' \in Seq(Symbol(Names))
  BY DEF MergeFile, LinkerInvariant, TypeOK, Loaded
<1>2. MergedTable(files, i, symtable)
  BY <1>1 DEF LinkerInvariant, Traced
<1>3. MergedTable(files, i + 1, symtable')
  BY <1>1 DEF LinkerInvariant, Traced
<1>4. i \in 1 .. Len(files) + 1 /\ i + 1 \in 1 .. Len(files) + 1
  BY <1>1, PlacesTyped
<1>5. /\ ClaimsOf(files, i, symtable) \subseteq ClaimsOf(files, i + 1, symtable')
      /\ ImportsOf(files, i) \subseteq ImportsOf(files, i + 1)
  BY <1>1, <1>2, <1>3, MoreBrought
<1>6. /\ BoundOf(ImportsOf(files, i), symtable) = {}
      /\ BoundOf(ImportsOf(files, i + 1), symtable') = {}
  BY <1>1, <1>2, <1>3, <1>4, MergedUnbound
<1>7. BindingVerdict = "open" /\ BindingVerdict' = "open"
  BY <1>1, VerdictOfPhase, VerdictAfter
<1>8. /\ ClaimsLaid = ClaimsOf(files, i, symtable)
      /\ ImportsMade = ImportsOf(files, i) /\ ImportsBound = {}
  BY <1>1, <1>6, SetsBefore
<1>9. /\ ClaimsLaid' = ClaimsOf(files, i + 1, symtable')
      /\ ImportsMade' = ImportsOf(files, i + 1) /\ ImportsBound' = {}
  BY <1>1, <1>6, SetsAfter
<1>. QED
  BY <1>5, <1>7, <1>8, <1>9 DEF Abstract!Collect

LEMMA ConflictRefuses ==
    ASSUME LinkerInvariant, RejectConflict
    PROVE  \E d \in Abstract!Definitions : Abstract!Contested(d[1])
<1>1. /\ phase = "resolve" /\ IsDefinition(symtable[current])
      /\ Conflicts(symtable, symtable[current])
  BY DEF RejectConflict, AtSymbol
<1>2. /\ files \in Inputs /\ i \in 1 .. Len(files) + 1
      /\ symtable \in Seq(Symbol(Names)) /\ current \in DOMAIN symtable
  BY DEF LinkerInvariant, TypeOK, Loaded, RejectConflict, AtSymbol
<1>3. PICK original \in Seq(Symbol(Names)) :
        MergedTable(files, i, original) /\ Resolved(original, symtable, current)
  BY <1>1 DEF LinkerInvariant, Traced
<1>4. PICK k \in Namesakes(symtable, symtable[current]) :
        ~IsUnresolved(symtable[k]) /\ ~SameDefinition(symtable[k], symtable[current])
  BY <1>1 DEF Conflicts
<1>5. k \in DOMAIN original /\ symtable[k] = original[k]
  BY <1>1, <1>2, <1>3, <1>4, ConflictOriginal
<1>6. symtable[k].name = symtable[current].name /\ symtable[k].scope = "global"
  BY <1>4 DEF Namesakes
<1>. DEFINE d == <<symtable[current].name, PlaceOf(symtable[current])>>
            place == IF symtable[k].section = "none" THEN Nowhere ELSE PlaceOf(symtable[k])
            rival == <<symtable[k].name, place>>
<1>7. ClaimsLaid = ClaimsOf(files, i, symtable)
  BY <1>1, SetsBefore
<1>8. d \in ClaimsLaid /\ d[2] # Nowhere
  BY <1>1, <1>2, <1>3, <1>7, DefinitionClaimed
<1>9. rival \in ClaimsLaid
  BY <1>2, <1>3, <1>4, <1>5, <1>6, <1>7, OriginalClaimed
<1>10. place # d[2]
  <2>1. PlaceOf(symtable[k]) # PlaceOf(symtable[current])
    BY <1>4, PlacesSame
  <2>. QED
    BY <1>8, <2>1
<1>11. d[1] = rival[1] /\ rival[2] = place
  BY <1>6
<1>. HIDE DEF d, rival, place
<1>12. d \in Abstract!Definitions
  BY <1>8 DEF Abstract!Definitions
<1>13. Abstract!Contested(d[1])
  BY <1>9, <1>10, <1>11, <1>12 DEF Abstract!Contested
<1>. QED
  BY <1>12, <1>13

LEMMA EndLinks ==
    ASSUME LinkerInvariant, EndResolve
    PROVE  \A d \in Abstract!Definitions :
              /\ ~Abstract!Contested(d[1])
              /\ \A l \in ImportsMade : l[2] = d[1] => <<l[1], l[2], d[2]>> \in ImportsBound
<1>1. phase = "resolve" /\ current > Len(symtable)
  BY DEF EndResolve
<1>2. /\ files \in Inputs /\ i \in 1 .. Len(files) + 1
      /\ symtable \in Seq(Symbol(Names)) /\ current \in Nat
  BY DEF LinkerInvariant, TypeOK, Loaded
<1>3. PICK original \in Seq(Symbol(Names)) :
        MergedTable(files, i, original) /\ Resolved(original, symtable, current)
  BY <1>1 DEF LinkerInvariant, Traced
<1>4. /\ ClaimsLaid = ClaimsOf(files, i, symtable)
      /\ ImportsMade = ImportsOf(files, i)
      /\ ImportsBound = BoundOf(ImportsMade, symtable)
  BY <1>1, SetsBefore
<1>. SUFFICES ASSUME NEW d \in Abstract!Definitions
              PROVE  /\ ~Abstract!Contested(d[1])
                     /\ \A l \in ImportsMade : l[2] = d[1] => <<l[1], l[2], d[2]>> \in ImportsBound
  OBVIOUS
<1>5. ASSUME NEW r \in Abstract!Definitions
      PROVE  \E k \in DOMAIN symtable :
                /\ IsDefinition(symtable[k])
                /\ r[1] = symtable[k].name /\ r[2] = PlaceOf(symtable[k])
  <2>1. r \in ClaimsOf(files, i, symtable) /\ r[2] # Nowhere
    BY <1>4 DEF Abstract!Definitions
  <2>. QED
    BY <1>2, <1>3, <2>1, DefinitionEntry
<1>6. ASSUME NEW k \in DOMAIN symtable, NEW j \in DOMAIN symtable,
             IsDefinition(symtable[k]), symtable[j].scope = "global",
             symtable[j].name = symtable[k].name
      PROVE  SameDefinition(symtable[k], symtable[j])
  <2>1. k < current
    BY <1>1, <1>2
  <2>. QED
    BY <1>3, <1>6, <2>1 DEF Resolved, Settled
<1>7. ASSUME NEW r \in Abstract!Definitions, NEW claim \in ClaimsLaid, claim[1] = r[1]
      PROVE  claim[2] = r[2]
  <2>1. PICK k \in DOMAIN symtable :
          /\ IsDefinition(symtable[k])
          /\ r[1] = symtable[k].name /\ r[2] = PlaceOf(symtable[k])
    BY <1>5
  <2>2. PICK j \in DOMAIN symtable :
          /\ symtable[j].scope = "global" /\ symtable[j].name = claim[1]
          /\ claim[2] = IF symtable[j].section = "none" THEN Nowhere ELSE PlaceOf(symtable[j])
    BY <1>2, <1>3, <1>4, ClaimEntry
  <2>3. SameDefinition(symtable[k], symtable[j])
    BY <1>6, <1>7, <2>1, <2>2
  <2>4. symtable[j].section # "none"
    BY <2>1, <2>3 DEF SameDefinition, IsDefinition
  <2>. QED
    BY <2>1, <2>2, <2>3, <2>4, PlacesSame
<1>8. ~Abstract!Contested(d[1])
  BY <1>7 DEF Abstract!Contested
<1>9. ASSUME NEW l \in ImportsMade, l[2] = d[1]
      PROVE  <<l[1], l[2], d[2]>> \in ImportsBound
  <2>1. PICK k \in DOMAIN symtable :
          /\ IsDefinition(symtable[k])
          /\ d[1] = symtable[k].name /\ d[2] = PlaceOf(symtable[k])
    BY <1>5
  <2>2. /\ l[1] \in DOMAIN symtable /\ symtable[l[1]].name = l[2]
        /\ symtable[l[1]].scope = "global"
    BY <1>2, <1>3, <1>4, ImportEntry
  <2>3. SameDefinition(symtable[k], symtable[l[1]])
    BY <1>6, <1>9, <2>1, <2>2
  <2>4. PlaceOf(symtable[l[1]]) = d[2]
    BY <2>1, <2>3, PlacesSame
  <2>5. ~IsUnresolved(symtable[l[1]])
    BY <2>1, <2>3 DEF SameDefinition, IsDefinition, IsUnresolved
  <2>. QED
    BY <1>4, <2>4, <2>5 DEF BoundOf
<1>. QED
  BY <1>8, <1>9

-----------------------------------------------------------------------------
(* Every step is a step of the binding, or none.                           *)

\* Steps that leave files, table and merged files alone change no view.
LEMMA NothingMoves ==
    ASSUME UNCHANGED <<files, i, symtable>>, phase = "load" <=> phase' = "load"
    PROVE  UNCHANGED <<ClaimsLaid, ImportsMade, ImportsBound>>
<1>1. CASE phase = "load"
  BY <1>1, ViewsBefore, ViewsAfter, EmptyBefore, EmptyAfter
<1>2. CASE phase # "load"
  BY <1>2, SetsBefore, SetsAfter
<1>. QED
  BY <1>1, <1>2

LEMMA NextBinds ==
    LinkerInvariant /\ LinkerInvariant' /\ [Next]_vars
        => [Abstract!Next]_(Abstract!bindingVars)
<1>. SUFFICES ASSUME LinkerInvariant, LinkerInvariant', [Next]_vars
              PROVE  [Abstract!Next]_(Abstract!bindingVars)
  OBVIOUS
<1>. USE DEF Abstract!Next, Abstract!bindingVars
<1>1. CASE LoadFile
  <2>1. phase = "load" /\ phase' = "load"
    BY <1>1 DEF LoadFile
  <2>2. Brought = {} /\ Brought' = {}
    BY <2>1, ViewsBefore, ViewsAfter
  <2>3. UNCHANGED <<ClaimsLaid, ImportsMade, ImportsBound>>
    BY <2>2, EmptyBefore, EmptyAfter
  <2>4. UNCHANGED BindingVerdict
    BY <2>1, VerdictOfPhase, VerdictAfter
  <2>. QED
    BY <2>3, <2>4
<1>2. CASE Allocate
  <2>1. phase = "load" /\ phase' = "merge" /\ i' = 1
    BY <1>2 DEF Allocate
  <2>2. Brought' = {}
    BY <2>1 DEF Brought, Merged
  <2>3. Brought = {}
    BY <2>1, ViewsBefore
  <2>4. UNCHANGED <<ClaimsLaid, ImportsMade, ImportsBound>>
    BY <2>2, <2>3, EmptyBefore, EmptyAfter
  <2>5. UNCHANGED BindingVerdict
    BY <2>1, VerdictOfPhase, VerdictAfter
  <2>. QED
    BY <2>4, <2>5
<1>3. CASE MergeFile
  BY <1>3, MergeCollects
<1>4. CASE CrashInMerge \/ EndMerge \/ PassOverSymbol
  <2>1. /\ phase \in {"merge", "resolve"} /\ phase' \in {"crashed", "resolve"}
        /\ UNCHANGED <<files, i, symtable>>
    BY <1>4 DEF CrashInMerge, EndMerge, PassOverSymbol, AtSymbol
  <2>2. UNCHANGED <<ClaimsLaid, ImportsMade, ImportsBound>>
    BY <2>1, NothingMoves
  <2>. QED
    BY <2>1, <2>2, VerdictOfPhase, VerdictAfter
<1>5. CASE ResolveSymbol
  BY <1>5, ResolveBinds
<1>6. CASE RejectConflict
  <2>1. /\ phase = "resolve" /\ phase' = "failed" /\ UNCHANGED <<files, i, symtable>>
    BY <1>6 DEF RejectConflict, AtSymbol
  <2>2. UNCHANGED <<ClaimsLaid, ImportsMade, ImportsBound>>
    BY <2>1, NothingMoves
  <2>3. Abstract!Refuse
    BY <1>6, <2>1, <2>2, ConflictRefuses, VerdictOfPhase, VerdictAfter DEF Abstract!Refuse
  <2>. QED
    BY <2>3
<1>7. CASE EndResolve
  <2>1. /\ phase = "resolve" /\ phase' \in {"crashed", "linked"}
        /\ UNCHANGED <<files, i, symtable>>
    BY <1>7 DEF EndResolve
  <2>2. UNCHANGED <<ClaimsLaid, ImportsMade, ImportsBound>>
    BY <2>1, NothingMoves
  <2>3. CASE phase' = "crashed"
    BY <2>1, <2>2, <2>3, VerdictOfPhase, VerdictAfter
  <2>4. CASE phase' = "linked"
    <3>1. Abstract!Link
      BY <1>7, <2>1, <2>2, <2>4, EndLinks, VerdictOfPhase, VerdictAfter DEF Abstract!Link
    <3>. QED
      BY <3>1
  <2>. QED
    BY <2>1, <2>3, <2>4
<1>8. CASE UNCHANGED vars
  <2>1. UNCHANGED <<files, i, symtable, phase>>
    BY <1>8 DEF vars
  <2>2. UNCHANGED <<ClaimsLaid, ImportsMade, ImportsBound>>
    BY <2>1, NothingMoves
  <2>3. UNCHANGED BindingVerdict
    BY <2>1 DEF BindingVerdict
  <2>. QED
    BY <2>2, <2>3
<1>. QED
  BY <1>1, <1>2, <1>3, <1>4, <1>5, <1>6, <1>7, <1>8 DEF Next, Exited

LEMMA InitBinds == Init => Abstract!Init
<1>. SUFFICES ASSUME Init PROVE Abstract!Init
  OBVIOUS
<1>1. Brought = {} /\ BindingVerdict = "open"
  BY ViewsBefore, VerdictOfPhase DEF Init
<1>. QED
  BY <1>1, EmptyBefore DEF Abstract!Init

\* The walk of symtable_resolve_globals implements the binding of names: all
\* imports of a name at once, to its one claim, for good.
THEOREM BindingImplemented == Spec => ImplementsBinding
<1>1. Init => Abstract!Init
  BY InitBinds
<1>2. LinkerInvariant /\ LinkerInvariant' /\ [Next]_vars
        => [Abstract!Next]_(Abstract!bindingVars)
  BY NextBinds
<1>. QED
  BY <1>1, <1>2, LinkerCorrect, PTL DEF Spec, ImplementsBinding, Abstract!Spec
=============================================================================
