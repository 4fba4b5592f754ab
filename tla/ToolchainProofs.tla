--------------------------- MODULE ToolchainProofs ---------------------------
(***************************************************************************)
(* Theorems about compile() followed by execute(), for every set of source *)
(* files, everything a user can type, every amount of registers and RAM    *)
(* and every value of the bounds; about the pointers to its lines through  *)
(* which compile() reads a text; and about the whole chain behind the      *)
(* parser, for every set of programs: that what the backend writes is what *)
(* the assembler reads, assembles, and the machine does not run out of.    *)
(***************************************************************************)
EXTENDS Language, AssemblerProofs, BackendProofs, FiniteSetTheorems

-------------------------------------------------------------------------------
(* The chunks of line k, as far as c reaches; jumps but for their argument.*)
LineIn(c, lines, k) ==
  \A i \in 1..Len(ChunksOf(lines[k])) :
    ChunksUpTo(lines)[k - 1] + i <= Len(c) =>
      /\ c[ChunksUpTo(lines)[k - 1] + i].cmd = ChunksOf(lines[k])[i].cmd
      /\ c[ChunksUpTo(lines)[k - 1] + i].mode = ChunksOf(lines[k])[i].mode

(* A jump leads to the start of a line, or has been left unresolved.       *)
Led(c) ==
  \A i \in 1..Len(c) : c[i].cmd \in LabelCommands =>
    \/ c[i].arg = POISON_JMP_POS
    \/ \E k \in 0..line : c[i].arg = ChunksUpTo(src)[k]

(* What the machine relies on, the lines being cut off or not.             *)
Laid(c) ==
  /\ c # << >> /\ c[1].cmd = "JMP"
  /\ \A k \in 1..line : LineIn(c, src, k)
  /\ \A i \in 1..Len(c) : i > ChunksUpTo(src)[line] => c[i].cmd = "VOID"
  /\ Addressable => Led(c)

LedInv ==
  stage \in {"emit", "arrange", "reduce"} /\ Addressable => Led(code)

LInv ==
  /\ LedInv
  /\ stage = "write" => Laid(code)
  /\ stage = "done" => Laid(bin)

(* The carriage is behind the code or at an instruction.                   *)
Landed(c) == c >= Len(bin) \/ c + 1 \in InstructionStarts

TInv ==
  /\ stage # "done" => phase = "ready"
  /\ phase = "ready" => carriage = 0 /\ ret = Machine!EmptyStack
  /\ carriage \in Nat /\ ret \in [elems : Seq(Nat), jammed : {FALSE}]
  /\ \A i \in 1..Len(ret.elems) :
       ret.elems[i] \in 1..Len(bin) /\ bin[ret.elems[i]].cmd = "CALL"
  /\ phase = "running" /\ Addressable =>
       /\ Landed(carriage)
       /\ \A i \in 1..Len(ret.elems) : ret.elems[i] \in InstructionStarts
  /\ phase = "ended" \/ (phase = "running" /\ carriage >= Len(bin))
       => (WithinLimit => UnresolvedJump \/ EndsInZeroData)
-------------------------------------------------------------------------------
(* The assembler lays its lines out so, and no step of it undoes that.     *)
LEMMA LinesAreIn ==
  ASSUME NEW c, NEW lines, NEW k, LineAt(c, lines, k)
  PROVE  LineIn(c, lines, k)
BY DEF LineAt, LineIn

(* While the code grows, all but the jumps is known already.               *)
LEMMA LaidFromEmitted ==
  ASSUME AssemblerConstants, AInv, EInv, stage \in {"emit", "arrange", "reduce"},
         Addressable => Led(code)
  PROVE  Laid(code)
<1>1. /\ Len(code) = ChunksUpTo(src)[line] /\ code[1].cmd = "JMP"
      /\ \A k \in 1..line : LineAt(code, src, k)
  BY DEF EInv, Emitted
<1>2. Len(code) >= 1 /\ Len(code) \in Nat
  BY Typed DEF AInv, EntryReady
<1>3. code # << >>
  BY <1>2
<1>4. \A i \in 1..Len(code) : ~ (i > ChunksUpTo(src)[line])
  BY <1>1, <1>2
<1> QED
  BY <1>1, <1>3, <1>4, LinesAreIn DEF Laid

LEMMA LParseStep ==
  ASSUME ParseHumanCode
  PROVE  LInv'
<1> DEFINE first == Chunk("JMP", "NONE", POISON_JMP_POS)
<1>1. code' = << first >> /\ stage' \in {"emit", "overrun"}
  BY DEF ParseHumanCode
<1>2. first.arg = POISON_JMP_POS
  BY DEF Chunk
<1> HIDE DEF first
<1>3. Len(code') = 1 /\ code'[1] = first
  BY <1>1
<1>4. Led(code)'
  BY <1>2, <1>3 DEF Led
<1> QED
  BY <1>1, <1>4 DEF LInv, LedInv

(* A written line leaves its jump, if it is one, unresolved.               *)
LEMMA LEmitStep ==
  ASSUME AssemblerConstants, AInv, LInv, EmitLine
  PROVE  LInv'
<1> DEFINE chunks == ChunksOf(src[line + 1])
<1>1. /\ stage = "emit" /\ stage' \in {"emit", "overrun"}
      /\ line < Len(src) /\ line' = line + 1 /\ src' = src
      /\ code' = code \o chunks
  BY DEF EmitLine
<1>2. /\ src[line + 1] \in LineType /\ line \in Nat
      /\ code \in Seq(ChunkType) /\ Len(code) \in Nat
  BY <1>1, Typed
<1>3. /\ chunks \in Seq(ChunkType) /\ Len(chunks) \in Nat
      /\ src[line + 1].op \in LabelCommands => Len(chunks) = 1
  BY <1>2, ChunksOfLine
<1>4. /\ Len(code') = Len(code) + Len(chunks)
      /\ \A i \in 1..(Len(code) + Len(chunks)) :
           code'[i] = IF i <= Len(code) THEN code[i] ELSE chunks[i - Len(code)]
  BY <1>1, <1>2, <1>3, ConcatProperties
<1>5. \A i \in 1..Len(chunks) : chunks[i].cmd \in LabelCommands => chunks[i].arg = POISON_JMP_POS
  <2>1. CASE src[line + 1].op \in LabelCommands
    BY <1>2, <1>3, <2>1, ShapeOfLine
  <2>2. CASE src[line + 1].op \notin LabelCommands
    BY <1>2, <2>2, ShapeOfLine
  <2> QED
    BY <2>1, <2>2
<1> HIDE DEF chunks
<1>6. ASSUME Addressable
      PROVE  Led(code)'
  <2>1. Led(code)
    BY <1>1, <1>6 DEF LInv, LedInv
  <2> SUFFICES ASSUME NEW i \in 1..Len(code'), code'[i].cmd \in LabelCommands
               PROVE  \/ code'[i].arg = POISON_JMP_POS
                      \/ \E k \in 0..(line + 1) : code'[i].arg = ChunksUpTo(src)[k]
    BY <1>1 DEF Led
  <2>2. CASE i <= Len(code)
    <3>1. i \in 1..Len(code) /\ code'[i] = code[i]
      BY <1>2, <1>3, <1>4, <2>2
    <3>2. \A k \in 0..line : k \in 0..(line + 1)
      BY <1>2
    <3> QED
      BY <2>1, <3>1, <3>2 DEF Led
  <2>3. CASE i > Len(code)
    <3>1. i - Len(code) \in 1..Len(chunks) /\ code'[i] = chunks[i - Len(code)]
      BY <1>2, <1>3, <1>4, <2>3
    <3> QED
      BY <1>5, <3>1
  <2> QED
    BY <1>2, <2>2, <2>3
<1>7. Addressable' = Addressable
  BY <1>1 DEF Addressable, BufferChunks
<1> QED
  BY <1>1, <1>6, <1>7 DEF LInv, LedInv

(* A label's place is smaller than the buffer, so that three bytes hold it.*)
LEMMA LFoundStep ==
  ASSUME AssemblerConstants, AInv, EInv, LInv, ArrangeFound
  PROVE  LInv'
<1> DEFINE here == jmps[jmp + 1]
           label == labels[Chosen(Matching(here.name))]
<1>1. /\ stage = "arrange" /\ jmp < Len(jmps)
      /\ Matching(here.name) # {}
      /\ code' = Patched(code, here.ip, label.ip)
      /\ UNCHANGED <<src, stage, line>>
  BY DEF ArrangeFound
<1>2. /\ code \in Seq(ChunkType) /\ Len(code) \in Nat /\ Len(jmps) \in Nat
      /\ line \in Nat /\ jmp \in 0..Len(jmps) /\ Len(src) \in Nat
  BY Typed
<1>3. jmp + 1 \in 1..Len(jmps)
  BY <1>1, <1>2
<1>4. here.ip \in Nat
  BY <1>1, <1>3, JumpStands
<1>5. Chosen(Matching(here.name)) \in 1..Len(labels)
  BY <1>1, MatchingLabels
<1>6. label.ip \in Nat /\ label.ip <= Len(code)
  BY <1>1, <1>5, LabelStands
<1>7. \E k \in 0..line : label.ip = ChunksUpTo(src)[k]
  <2>1. PICK m \in 1..line : label = Entry(src, m)
    BY <1>1, <1>5 DEF EInv, LabelsNoted
  <2>2. m - 1 \in 0..line
    BY <1>2
  <2> QED
    BY <2>1, <2>2 DEF Entry
<1> HIDE DEF here, label
<1>8. ASSUME Addressable
      PROVE  Led(code)'
  <2>1. Led(code)
    BY <1>1, <1>8 DEF LInv, LedInv
  <2>2. label.ip % ThreeBytes = label.ip
    <3>1. label.ip < ThreeBytes
      BY <1>1, <1>2, <1>6, <1>8 DEF Addressable, BufferChunks, ThreeBytes, AInv, EntryReady
    <3> QED
      BY <1>6, <3>1 DEF ThreeBytes
  <2> DEFINE new == Patched(code, here.ip, label.ip)
  <2>3. /\ Len(new) = Len(code)
        /\ \A i \in 1..Len(code) :
             /\ new[i].cmd = code[i].cmd
             /\ i # here.ip + 1 => new[i] = code[i]
             /\ i = here.ip + 1 => new[i].arg = label.ip % ThreeBytes
    <3>1. code \in Seq(ChunkType) /\ here.ip \in Nat /\ label.ip \in Nat
      BY <1>2, <1>4, <1>6
    <3> QED
      BY <3>1, PatchedOne, ZenonT(30)
  <2>4. code' = new
    BY <1>1
  <2> HIDE DEF new
  <2>5. /\ Len(code') = Len(code)
        /\ \A i \in 1..Len(code) :
             /\ code'[i].cmd = code[i].cmd
             /\ code'[i].arg = code[i].arg \/ code'[i].arg = label.ip
    BY <2>2, <2>3, <2>4
  <2> QED
    BY <1>1, <1>7, <2>1, <2>5 DEF Led
<1>9. Addressable' = Addressable
  BY <1>1 DEF Addressable, BufferChunks
<1> QED
  BY <1>1, <1>8, <1>9 DEF LInv, LedInv

(* What reduce_buffer_size keeps is code, and zeros behind it.             *)
LEMMA KeptChunks ==
  ASSUME AssemblerConstants, AInv, Len(code) >= 1, Len(code) < BufferChunks
  PROVE  LET kept == SubSeq(Buffer, 1, Kept)
         IN  /\ kept # << >> /\ kept[1] = code[1] /\ Len(kept) \in Nat
             /\ \A i \in 1..Len(kept) :
                  kept[i] = IF i <= Len(code) THEN code[i] ELSE VoidChunk
<1>1. /\ BufferChunks \in Nat /\ code \in Seq(ChunkType) /\ Len(code) \in Nat
      /\ AssemblerTypeOK
  BY SourceIsTyped, LenProperties DEF AInv, AssemblerTypeOK
<1>2. /\ SubSeq(Buffer, 1, Kept) \in Seq(ChunkType)
      /\ Len(SubSeq(Buffer, 1, Kept)) >= 1
      /\ SubSeq(Buffer, 1, Kept)[1] = code[1]
  BY <1>1, KeptCode
<1>3. Scanned \in Nat /\ Scanned <= BufferChunks
  BY <1>1 DEF Scanned, AssemblerConstants
<1>4. Kept \in 1..BufferChunks
  <2>1. CASE ZeroRuns(Buffer, Scanned) = {}
    BY <1>1, <2>1 DEF Kept
  <2>2. CASE ZeroRuns(Buffer, Scanned) # {}
    <3>1. ZeroRuns(Buffer, Scanned) \subseteq 1..Scanned
      BY DEF ZeroRuns
    <3>2. LastOf(ZeroRuns(Buffer, Scanned)) \in 1..Scanned
      BY <1>3, <2>2, <3>1, LastIsInside
    <3> QED
      BY <1>1, <1>3, <2>2, <3>2 DEF Kept
  <2> QED
    BY <2>1, <2>2
<1>5. Buffer \in Seq(ChunkType) /\ Len(Buffer) = BufferChunks
  <2>1. VoidChunk \in ChunkType
    BY DEF VoidChunk, Chunk, ChunkType, Modes, LabelCommands
  <2>2. \A i \in 1..Len(code) : code[i] \in ChunkType
    BY <1>1, ElementOfSeq
  <2>3. Buffer \in [1..BufferChunks -> ChunkType]
    BY <1>1, <2>1, <2>2 DEF Buffer
  <2> QED
    BY <1>1, <2>3, LenProperties, SeqDef
<1>6. \A i \in 1..BufferChunks : Buffer[i] = IF i <= Len(code) THEN code[i] ELSE VoidChunk
  BY DEF Buffer
<1> HIDE DEF Kept, Buffer
<1>7. /\ Len(SubSeq(Buffer, 1, Kept)) = Kept
      /\ \A i \in 1..Kept : SubSeq(Buffer, 1, Kept)[i] = Buffer[i]
  BY <1>1, <1>4, <1>5, PrefixOfSeq
<1>8. \A i \in 1..Kept : i \in 1..BufferChunks
  BY <1>1, <1>4
<1>9. Kept \in Nat /\ SubSeq(Buffer, 1, Kept) # << >>
  <2>1. Kept \in Nat
    BY <1>1, <1>4
  <2> DEFINE kept == SubSeq(Buffer, 1, Kept)
  <2>2. Len(kept) >= 1
    BY <1>2
  <2> HIDE DEF kept
  <2>3. kept # << >>
    BY <2>2
  <2> QED
    BY <2>1, <2>3 DEF kept
<1> QED
  BY <1>2, <1>6, <1>7, <1>8, <1>9

LEMMA LReduceStep ==
  ASSUME AssemblerConstants, AInv, EInv, LInv, ReduceBufferSize
  PROVE  LInv'
<1> DEFINE U == ChunksUpTo(src)
<1>1. /\ stage = "reduce" /\ stage' = "write"
      /\ code' = SubSeq(Buffer, 1, Kept)
      /\ src' = src /\ line' = line
  BY DEF ReduceBufferSize
<1>2. /\ Len(code) >= 1 /\ Len(code) < BufferChunks /\ Len(code) \in Nat
      /\ src \in Seq(LineType) /\ Len(src) \in Nat /\ line \in 0..Len(src)
  BY <1>1, Typed DEF AInv, EntryReady
<1>3. /\ code' # << >> /\ code'[1] = code[1] /\ Len(code') \in Nat
      /\ \A i \in 1..Len(code') : code'[i] = IF i <= Len(code) THEN code[i] ELSE VoidChunk
  BY <1>1, <1>2, KeptChunks
<1>4. Laid(code) /\ Len(code) = U[line] /\ (\A k \in 1..line : LineAt(code, src, k))
  BY <1>1, LaidFromEmitted DEF LInv, LedInv, EInv, Emitted
<1>5. VoidChunk.cmd = "VOID" /\ "VOID" \notin LabelCommands
  BY DEF VoidChunk, Chunk, LabelCommands
<1>6. ASSUME NEW k \in 1..line
      PROVE  LineIn(code', src, k)
  <2>1. /\ U[k] = U[k - 1] + Len(ChunksOf(src[k])) /\ U[k - 1] \in Nat
        /\ Len(ChunksOf(src[k])) \in Nat
    <3>1. k \in 1..Len(src) /\ k - 1 \in 0..Len(src) /\ src[k] \in LineType
      BY <1>2, Typed
    <3>2. Len(ChunksOf(src[k])) \in Nat
      BY <3>1, ChunksOfLine
    <3> QED
      BY <1>2, <3>1, <3>2, Positions
  <2>2. /\ U[k] <= Len(code)
        /\ \A i \in 1..Len(ChunksOf(src[k])) :
             /\ code[U[k - 1] + i].cmd = ChunksOf(src[k])[i].cmd
             /\ code[U[k - 1] + i].mode = ChunksOf(src[k])[i].mode
    BY <1>4 DEF LineAt
  <2> HIDE DEF U
  <2>3. ASSUME NEW i \in 1..Len(ChunksOf(src[k])), U[k - 1] + i <= Len(code')
        PROVE  code'[U[k - 1] + i] = code[U[k - 1] + i]
    <3>1. U[k - 1] + i \in 1..Len(code') /\ U[k - 1] + i <= Len(code)
      BY <1>2, <1>3, <2>1, <2>2, <2>3
    <3> QED
      BY <1>3, <3>1
  <2> QED
    BY <2>2, <2>3 DEF LineIn, U
<1>7. \A i \in 1..Len(code') : i > U[line] => code'[i].cmd = "VOID"
  <2> HIDE DEF U
  <2> QED
    BY <1>2, <1>3, <1>4, <1>5
<1>8. Addressable => Led(code)'
  <2>1. Addressable => Led(code)
    BY <1>4 DEF Laid
  <2>2. \A i \in 1..Len(code') : code'[i].cmd \in LabelCommands => i \in 1..Len(code) /\ code'[i] = code[i]
    BY <1>2, <1>3, <1>5
  <2> QED
    BY <1>1, <2>1, <2>2, ZenonT(30) DEF Led
<1>9. Laid(code)'
  <2>1. Addressable' = Addressable
    BY <1>1 DEF Addressable, BufferChunks
  <2>2. code'[1].cmd = "JMP"
    BY <1>3, <1>4 DEF Laid
  <2> QED
    BY <1>1, <1>3, <1>6, <1>7, <1>8, <2>1, <2>2 DEF Laid
<1> QED
  BY <1>1, <1>9 DEF LInv, LedInv

LEMMA LQuietStep ==
  ASSUME LInv, \/ EnvironmentFails \/ EmitDone \/ ArrangeMissing \/ ArrangeDone
               \/ CreateBin \/ UNCHANGED avars
  PROVE  LInv'
<1>1. CASE EnvironmentFails
  BY <1>1 DEF EnvironmentFails, LInv, LedInv
<1>2. CASE EmitDone \/ ArrangeMissing \/ ArrangeDone
  <2>1. /\ stage \in {"emit", "arrange"} /\ stage' \in {"arrange", "reduce", "failed"}
        /\ UNCHANGED <<src, line, code>>
    BY <1>2 DEF EmitDone, ArrangeMissing, ArrangeDone
  <2> QED
    BY <2>1 DEF LInv, LedInv, Led, Addressable, BufferChunks
<1>3. CASE CreateBin
  <2>1. /\ stage = "write" /\ stage' = "done" /\ bin' = code
        /\ UNCHANGED <<src, line, code>>
    BY <1>3 DEF CreateBin
  <2>2. Laid(code) => Laid(bin)'
    BY <2>1 DEF Laid, Led, Addressable, BufferChunks
  <2> QED
    BY <2>1, <2>2 DEF LInv, LedInv
<1>4. CASE UNCHANGED avars
  BY <1>4 DEF avars, LInv, LedInv, Laid, Led, Addressable, BufferChunks
<1> QED
  BY <1>1, <1>2, <1>3, <1>4

LEMMA LayoutInvariance == ASpec => [](AInv /\ EInv /\ LInv)
<1>1. AInit => LInv
  BY DEF AInit, LInv, LedInv
<1>2. AInv /\ EInv /\ LInv /\ [ANext]_avars => LInv'
  BY AssemblerConstants, LParseStep, LEmitStep, LFoundStep, LReduceStep, LQuietStep DEF ANext
<1> QED
  BY <1>1, <1>2, EmittedInvariance, PTL DEF ASpec
-------------------------------------------------------------------------------
(* The recursion by which InstructionStarts decodes the code is defined.   *)
LEMMA DecodingExists ==
  ASSUME NEW c, NEW n \in Nat
  PROVE  \E f : f = [i \in 1..n |->
                       \/ i = 1
                       \/ i > 1 /\ f[i - 1] /\ Width(c[i - 1].cmd, c[i - 1].mode) = 1
                       \/ i > 2 /\ f[i - 2] /\ Width(c[i - 2].cmd, c[i - 2].mode) = 2]
<1> DEFINE Body(f, i) ==
             \/ i = 1
             \/ i > 1 /\ f[i - 1] /\ Width(c[i - 1].cmd, c[i - 1].mode) = 1
             \/ i > 2 /\ f[i - 2] /\ Width(c[i - 2].cmd, c[i - 2].mode) = 2
           good == {m \in Nat : \E f : f = [i \in 1..m |-> Body(f, i)]}
<1>1. 0 \in good
  <2> DEFINE f == [i \in 1..0 |-> TRUE]
  <2>1. f = [i \in 1..0 |-> Body(f, i)]
    OBVIOUS
  <2> QED
    BY <2>1
<1>2. ASSUME NEW m \in Nat, m \in good
      PROVE  m + 1 \in good
  <2>1. PICK f : f = [i \in 1..m |-> Body(f, i)]
    BY <1>2
  <2> DEFINE g == [i \in 1..(m + 1) |-> IF i = m + 1 THEN Body(f, m + 1) ELSE f[i]]
  <2>2. \A i \in 1..m : f[i] = Body(f, i)
    BY <2>1
  <2>3. (\A i \in 1..m : g[i] = f[i]) /\ g[m + 1] = Body(f, m + 1)
    <3> HIDE DEF Body
    <3>1. (\A i \in 1..m : i \in 1..(m + 1) /\ i # m + 1) /\ m + 1 \in 1..(m + 1)
      OBVIOUS
    <3> QED
      BY <3>1
  <2>5. ASSUME NEW i \in 1..(m + 1)
        PROVE  Body(f, i) = Body(g, i)
    <3>1. (i > 1 => i - 1 \in 1..m) /\ (i > 2 => i - 2 \in 1..m)
      OBVIOUS
    <3> HIDE DEF g
    <3> QED
      BY <2>3, <3>1
  <2>6. g = [i \in 1..(m + 1) |-> g[i]]
    OBVIOUS
  <2> HIDE DEF g
  <2>7. \A i \in 1..(m + 1) : g[i] = Body(g, i)
    <3> SUFFICES ASSUME NEW i \in 1..(m + 1)
                 PROVE  g[i] = Body(g, i)
      OBVIOUS
    <3>1. CASE i = m + 1
      BY <2>3, <2>5, <3>1
    <3>2. CASE i # m + 1
      <4>1. i \in 1..m
        BY <3>2
      <4> QED
        BY <2>2, <2>3, <2>5, <4>1
    <3> QED
      BY <3>1, <3>2
  <2> HIDE DEF Body
  <2>8. g = [i \in 1..(m + 1) |-> Body(g, i)]
    BY <2>6, <2>7
  <2> QED
    BY <2>8
<1> HIDE DEF good
<1>3. n \in good
  BY <1>1, <1>2, SetInduction
<1> QED
  BY <1>3 DEF good

(* An instruction begins at the first chunk, and behind each instruction.  *)
LEMMA StartsGrow ==
  ASSUME Len(bin) \in Nat
  PROVE  /\ InstructionStarts \subseteq 1..Len(bin)
         /\ Len(bin) >= 1 => 1 \in InstructionStarts
         /\ \A i \in InstructionStarts :
              i + Width(bin[i].cmd, bin[i].mode) <= Len(bin)
                => i + Width(bin[i].cmd, bin[i].mode) \in InstructionStarts
<1> DEFINE n == Len(bin)
           W(i) == Width(bin[i].cmd, bin[i].mode)
           starts == CHOOSE f : f = [i \in 1..n |->
                       \/ i = 1
                       \/ i > 1 /\ f[i - 1] /\ W(i - 1) = 1
                       \/ i > 2 /\ f[i - 2] /\ W(i - 2) = 2]
<1>1. InstructionStarts = {i \in 1..n : starts[i]}
  BY DEF InstructionStarts
<1>2. starts = [i \in 1..n |->
                  \/ i = 1
                  \/ i > 1 /\ starts[i - 1] /\ W(i - 1) = 1
                  \/ i > 2 /\ starts[i - 2] /\ W(i - 2) = 2]
  <2>1. \E f : f = [i \in 1..n |->
                     \/ i = 1
                     \/ i > 1 /\ f[i - 1] /\ W(i - 1) = 1
                     \/ i > 2 /\ f[i - 2] /\ W(i - 2) = 2]
    BY DecodingExists
  <2> HIDE DEF W, n
  <2> QED
    BY <2>1
<1> HIDE DEF starts
<1>3. \A i \in 1..n :
        starts[i] <=> \/ i = 1
                      \/ i > 1 /\ starts[i - 1] /\ W(i - 1) = 1
                      \/ i > 2 /\ starts[i - 2] /\ W(i - 2) = 2
  BY <1>2
<1>4. \A i : W(i) = 1 \/ W(i) = 2
  BY DEF Width
<1> HIDE DEF W, n
<1>5. n \in Nat
  BY DEF n
<1>6. n >= 1 => 1 \in InstructionStarts
  <2>1. n >= 1 => 1 \in 1..n
    BY <1>5
  <2> QED
    BY <1>1, <1>3, <2>1
<1>7. ASSUME NEW i \in InstructionStarts, i + W(i) <= n
      PROVE  i + W(i) \in InstructionStarts
  <2>1. i \in 1..n /\ starts[i]
    BY <1>1
  <2>2. CASE W(i) = 1
    <3>1. i + 1 \in 1..n /\ (i + 1) - 1 = i /\ i + 1 > 1
      BY <1>5, <1>7, <2>1, <2>2
    <3>2. starts[i + 1]
      BY <1>3, <2>1, <2>2, <3>1
    <3> QED
      BY <1>1, <2>2, <3>1, <3>2
  <2>3. CASE W(i) = 2
    <3>1. i + 2 \in 1..n /\ (i + 2) - 2 = i /\ i + 2 > 2
      BY <1>5, <1>7, <2>1, <2>3
    <3>2. starts[i + 2]
      BY <1>3, <2>1, <2>3, <3>1
    <3> QED
      BY <1>1, <2>3, <3>1, <3>2
  <2> QED
    BY <1>4, <2>2, <2>3
<1> QED
  BY <1>1, <1>6, <1>7 DEF n, W
-------------------------------------------------------------------------------
(* A line is nothing, one instruction of one chunk, or one of two; and a   *)
(* jump is one of one.                                                     *)
LEMMA LineIsInstruction ==
  ASSUME NEW l \in LineType
  PROVE  \/ Len(ChunksOf(l)) = 0
         \/ /\ Len(ChunksOf(l)) \in {1, 2}
            /\ Width(ChunksOf(l)[1].cmd, ChunksOf(l)[1].mode) = Len(ChunksOf(l))
            /\ ChunksOf(l)[1].cmd = l.op
<1>1. CASE l.op \in {"LABEL", "UNKNOWN"}
  <2>1. ChunksOf(l) = << >>
    BY <1>1 DEF ChunksOf
  <2> QED
    BY <2>1
<1>2. CASE l.op \in LabelCommands
  <2>1. ChunksOf(l) = << Chunk(l.op, "NONE", POISON_JMP_POS) >>
    BY <1>2 DEF ChunksOf, LabelCommands
  <2> DEFINE jump == Chunk(l.op, "NONE", POISON_JMP_POS)
  <2>2. jump.cmd = l.op /\ jump.mode = "NONE" /\ ChunksOf(l) = << jump >>
    BY <2>1 DEF Chunk
  <2> HIDE DEF jump
  <2>3. Len(ChunksOf(l)) = 1 /\ ChunksOf(l)[1] = jump
    BY <2>2
  <2>4. Width(l.op, "NONE") = 1
    BY <1>2 DEF Width, LabelCommands
  <2> QED
    BY <2>2, <2>3, <2>4
<1>3. CASE l.op \notin {"LABEL", "UNKNOWN"} \cup LabelCommands /\ Width(l.op, l.mode) = 2
  <2> DEFINE first == Chunk(l.op, l.mode, 0)
             data == DataChunk(l.arg)
  <2>1. ChunksOf(l) = << first, data >> /\ first.cmd = l.op /\ first.mode = l.mode
    BY <1>3 DEF ChunksOf, Chunk
  <2> HIDE DEF first, data
  <2>2. Len(ChunksOf(l)) = 2 /\ ChunksOf(l)[1] = first
    BY <2>1
  <2> QED
    BY <1>3, <2>1, <2>2
<1>4. CASE l.op \notin {"LABEL", "UNKNOWN"} \cup LabelCommands /\ Width(l.op, l.mode) # 2
  <2> DEFINE only == Chunk(l.op, l.mode, l.arg)
  <2>1. ChunksOf(l) = << only >> /\ only.cmd = l.op /\ only.mode = l.mode
    BY <1>4 DEF ChunksOf, Chunk
  <2> HIDE DEF only
  <2>2. Len(ChunksOf(l)) = 1 /\ ChunksOf(l)[1] = only
    BY <2>1
  <2>3. Width(l.op, l.mode) = 1
    BY <1>4 DEF Width
  <2> QED
    BY <2>1, <2>2, <2>3
<1> QED
  BY <1>1, <1>2, <1>3, <1>4

(* The finished binary, line by line.                                      *)
LEMMA LineOfBinary ==
  ASSUME AssemblerConstants, AInv, LInv, stage = "done", NEW k \in 1..line
  PROVE  LET U == ChunksUpTo(src)
             chunks == ChunksOf(src[k])
         IN  /\ src[k] \in LineType /\ k - 1 \in 0..line /\ k - 1 \in Nat
             /\ U[k - 1] \in Nat /\ U[k - 1] >= 1 /\ U[k] = U[k - 1] + Len(chunks)
             /\ Len(bin) \in Nat /\ bin \in Seq(ChunkType)
             /\ \A i \in 1..Len(chunks) : U[k - 1] + i <= Len(bin) =>
                  /\ bin[U[k - 1] + i].cmd = chunks[i].cmd
                  /\ bin[U[k - 1] + i].mode = chunks[i].mode
<1>1. /\ src \in Seq(LineType) /\ line \in 0..Len(src) /\ Len(src) \in Nat
      /\ bin \in Seq(ChunkType) /\ Len(bin) \in Nat
  BY Typed, LenProperties DEF AInv, AssemblerTypeOK
<1>2. k \in 1..Len(src) /\ k - 1 \in 0..Len(src) /\ k - 1 \in 0..line /\ k - 1 \in Nat
  BY <1>1
<1>3. src[k] \in LineType
  BY <1>2, Typed
<1>4. /\ ChunksUpTo(src)[k - 1] \in Nat /\ ChunksUpTo(src)[k - 1] >= 1
      /\ ChunksUpTo(src)[k] = ChunksUpTo(src)[k - 1] + Len(ChunksOf(src[k]))
  BY <1>1, <1>2, Positions
<1>5. LineIn(bin, src, k)
  BY DEF LInv, Laid
<1> QED
  BY <1>1, <1>2, <1>3, <1>4, <1>5 DEF LineIn

(* Lines begin where instructions do.                                      *)
LEMMA LinesStart ==
  ASSUME AssemblerConstants, AInv, LInv, stage = "done"
  PROVE  \A k \in 0..line : Landed(ChunksUpTo(src)[k])
<1> DEFINE U == ChunksUpTo(src)
           good == {k \in Nat : k <= line => Landed(U[k])}
<1>1. /\ Len(bin) \in Nat /\ Len(bin) >= 1 /\ bin[1].cmd = "JMP" /\ line \in Nat
      /\ U[0] = 1
  <2>1. bin \in Seq(ChunkType) /\ bin # << >> /\ bin[1].cmd = "JMP"
    BY DEF LInv, Laid, AInv, AssemblerTypeOK
  <2> QED
    BY <2>1, Typed, Positions, LenProperties, EmptySeq
<1>2. 0 \in good
  <2>1. 1 \in InstructionStarts
    BY <1>1, StartsGrow
  <2>2. Width(bin[1].cmd, bin[1].mode) = 1
    BY <1>1 DEF Width
  <2>3. 2 <= Len(bin) => 2 \in InstructionStarts
    BY <1>1, <2>1, <2>2, StartsGrow
  <2>4. Landed(1)
    BY <1>1, <2>3 DEF Landed
  <2> QED
    BY <1>1, <2>4
<1>3. ASSUME NEW k \in Nat, k \in good
      PROVE  k + 1 \in good
  <2> SUFFICES ASSUME k + 1 <= line
               PROVE  Landed(U[k + 1])
    OBVIOUS
  <2> DEFINE chunks == ChunksOf(src[k + 1])
  <2>1. k + 1 \in 1..line /\ (k + 1) - 1 = k
    BY <1>1
  <2>2. /\ src[k + 1] \in LineType /\ U[k] \in Nat /\ U[k + 1] = U[k] + Len(chunks)
        /\ \A i \in 1..Len(chunks) : U[k] + i <= Len(bin) =>
             /\ bin[U[k] + i].cmd = chunks[i].cmd
             /\ bin[U[k] + i].mode = chunks[i].mode
    BY <2>1, LineOfBinary, ZenonT(30)
  <2>3. Landed(U[k])
    BY <1>1, <1>3, <2>1
  <2>4. \/ Len(chunks) = 0
        \/ Len(chunks) \in {1, 2} /\ Width(chunks[1].cmd, chunks[1].mode) = Len(chunks)
    BY <2>2, LineIsInstruction
  <2> HIDE DEF chunks, U
  <2>5. CASE Len(chunks) = 0 \/ U[k] >= Len(bin)
    BY <1>1, <2>2, <2>3, <2>4, <2>5 DEF Landed
  <2>6. CASE Len(chunks) \in {1, 2} /\ U[k] < Len(bin)
    <3>1. U[k] + 1 \in InstructionStarts
      BY <1>1, <2>2, <2>3, <2>6 DEF Landed
    <3>2. 1 \in 1..Len(chunks) /\ U[k] + 1 <= Len(bin)
      <4>1. Len(bin) \in Nat /\ U[k] \in Nat /\ U[k] < Len(bin)
        BY <1>1, <2>2, <2>6
      <4>2. 1 \in 1..Len(chunks)
        <5>1. Len(chunks) \in Nat /\ 1 <= Len(chunks)
          BY <2>6, SMTT(30)
        <5> QED
          BY <5>1
      <4> QED
        BY <4>1, <4>2
    <3>3. Width(bin[U[k] + 1].cmd, bin[U[k] + 1].mode) = Len(chunks)
      BY <2>2, <2>4, <2>6, <3>2
    <3>4. (U[k] + 1) + Len(chunks) <= Len(bin) => (U[k] + 1) + Len(chunks) \in InstructionStarts
      BY <1>1, <3>1, <3>3, StartsGrow
    <3>5. (U[k] + 1) + Len(chunks) = U[k + 1] + 1 /\ U[k + 1] \in Nat
      BY <2>2, <2>6
    <3> QED
      BY <1>1, <3>4, <3>5 DEF Landed
  <2> QED
    BY <1>1, <2>2, <2>4, <2>5, <2>6
<1> HIDE DEF good
<1>4. Nat \subseteq good
  BY <1>2, <1>3, SetInduction
<1> QED
  BY <1>1, <1>4 DEF good

(* A jump leads to an instruction, or off the code.                        *)
LEMMA JumpLands ==
  ASSUME AssemblerConstants, AInv, LInv, stage = "done", Addressable,
         NEW i \in 1..Len(bin), bin[i].cmd \in LabelCommands
  PROVE  /\ Landed(Machine!Target(bin[i].arg))
         /\ \/ bin[i].arg = POISON_JMP_POS
            \/ \E k \in 0..line : Machine!Target(bin[i].arg) = ChunksUpTo(src)[k]
<1>1. \/ bin[i].arg = POISON_JMP_POS
      \/ \E k \in 0..line : bin[i].arg = ChunksUpTo(src)[k]
  BY DEF LInv, Laid, Led
<1>2. bin \in Seq(ChunkType) /\ Len(bin) \in Nat
  BY LenProperties DEF AInv, AssemblerTypeOK
<1>3. CASE bin[i].arg = POISON_JMP_POS
  BY <1>2, <1>3 DEF Machine!Target, Landed, POISON_JMP_POS, Machine!POISON_JMP_POS
<1>4. CASE bin[i].arg # POISON_JMP_POS
  <2>1. PICK k \in 0..line : bin[i].arg = ChunksUpTo(src)[k]
    BY <1>1, <1>4
  <2>2. Landed(ChunksUpTo(src)[k])
    BY LinesStart
  <2>3. Machine!Target(bin[i].arg) = ChunksUpTo(src)[k]
    BY <1>4, <2>1 DEF Machine!Target, POISON_JMP_POS, Machine!POISON_JMP_POS
  <2> QED
    BY <2>2, <2>3
<1> QED
  BY <1>3, <1>4

(* A line can only end with a VOID chunk at the end of the binary if that  *)
(* is the data of a push or a draw.                                        *)
LEMMA EndOfLines ==
  ASSUME AssemblerConstants, AInv, LInv, stage = "done", bin[Len(bin)].cmd = "VOID",
         NEW j \in 0..line, ChunksUpTo(src)[j] = Len(bin)
  PROVE  EndsInZeroData
<1> DEFINE U == ChunksUpTo(src)
           good == {k \in Nat : k <= line /\ U[k] = Len(bin) => EndsInZeroData}
<1>1. /\ Len(bin) \in Nat /\ bin[1].cmd = "JMP" /\ line \in Nat /\ U[0] = 1
  <2>1. bin \in Seq(ChunkType) /\ bin # << >> /\ bin[1].cmd = "JMP"
    BY DEF LInv, Laid, AInv, AssemblerTypeOK
  <2> QED
    BY <2>1, Typed, Positions, LenProperties
<1>2. 0 \in good
  BY <1>1
<1>3. ASSUME NEW k \in Nat, k \in good
      PROVE  k + 1 \in good
  <2> SUFFICES ASSUME k + 1 <= line, U[k + 1] = Len(bin)
               PROVE  EndsInZeroData
    OBVIOUS
  <2> DEFINE chunks == ChunksOf(src[k + 1])
  <2>1. k + 1 \in 1..line /\ (k + 1) - 1 = k /\ k \in 0..line
    BY <1>1
  <2>2. /\ src[k + 1] \in LineType /\ U[k] \in Nat /\ U[k + 1] = U[k] + Len(chunks)
        /\ \A i \in 1..Len(chunks) : U[k] + i <= Len(bin) =>
             /\ bin[U[k] + i].cmd = chunks[i].cmd
             /\ bin[U[k] + i].mode = chunks[i].mode
    BY <2>1, LineOfBinary, ZenonT(30)
  <2>3. Landed(U[k])
    BY <2>1, LinesStart
  <2>4. \/ Len(chunks) = 0
        \/ Len(chunks) \in {1, 2} /\ Width(chunks[1].cmd, chunks[1].mode) = Len(chunks)
    BY <2>2, LineIsInstruction
  <2>5. \A i \in 1..Len(chunks) : chunks[i].cmd = "VOID" => i = 2
    BY <2>2, ShapeOfLine
  <2> HIDE DEF chunks, U
  <2>6. CASE Len(chunks) = 0
    <3>1. U[k] = Len(bin) /\ k <= line
      BY <1>1, <2>2, <2>6
    <3> QED
      BY <1>3, <3>1
  <2>7. CASE Len(chunks) \in {1, 2}
    <3>1. Len(chunks) \in Nat /\ Len(chunks) >= 1 /\ U[k] + Len(chunks) = Len(bin)
      <4>1. Len(chunks) \in Nat /\ Len(chunks) >= 1
        BY <2>7
      <4> QED
        BY <2>2, <4>1
    <3>2. Len(chunks) \in 1..Len(chunks)
      BY <3>1
    <3>3. bin[U[k] + Len(chunks)].cmd = chunks[Len(chunks)].cmd
      BY <1>1, <2>2, <3>1, <3>2
    <3>4. Len(chunks) = 2
      BY <2>5, <3>1, <3>2, <3>3
    <3>5. U[k] + 1 \in InstructionStarts /\ U[k] + 1 = Len(bin) - 1
      BY <1>1, <2>2, <2>3, <3>1, <3>4 DEF Landed
    <3>6. 1 \in 1..Len(chunks) /\ U[k] + 1 <= Len(bin)
      BY <1>1, <2>2, <3>1, <3>4
    <3>7. Width(bin[U[k] + 1].cmd, bin[U[k] + 1].mode) = 2
      BY <2>2, <2>4, <3>4, <3>6
    <3> QED
      BY <3>5, <3>7 DEF EndsInZeroData
  <2> QED
    BY <2>4, <2>6, <2>7
<1> HIDE DEF good
<1>4. Nat \subseteq good
  BY <1>2, <1>3, SetInduction
<1>5. j \in Nat /\ j <= line /\ U[j] = Len(bin)
  BY <1>1
<1>6. j \in good
  BY <1>4, <1>5
<1> QED
  BY <1>5, <1>6 DEF good

(* A jump or call command is the chunk of a line that jumps or calls, but  *)
(* for the entry jump.                                                     *)
LEMMA JumpsAreLines ==
  ASSUME AssemblerConstants, AInv, LInv, stage = "done",
         NEW e \in 1..Len(bin), bin[e].cmd \in LabelCommands, e > 1
  PROVE  \E k \in 1..line : src[k].op = bin[e].cmd /\ e = Position(k) + 1
<1> DEFINE U == ChunksUpTo(src)
           good == {k \in Nat : k <= line /\ e <= U[k] => \E m \in 1..line : src[m].op = bin[e].cmd /\ e = U[m - 1] + 1}
<1>1. /\ Len(bin) \in Nat /\ bin[1].cmd = "JMP" /\ line \in Nat /\ U[0] = 1
      /\ \A i \in 1..Len(bin) : i > U[line] => bin[i].cmd = "VOID"
      /\ DOMAIN src = 1..Len(src) /\ line \in 0..Len(src) /\ Len(src) \in Nat
      /\ U[line] \in Nat
  <2>1. /\ bin \in Seq(ChunkType) /\ bin # << >> /\ bin[1].cmd = "JMP"
        /\ \A i \in 1..Len(bin) : i > U[line] => bin[i].cmd = "VOID"
    BY DEF LInv, Laid, AInv, AssemblerTypeOK
  <2> QED
    BY <2>1, Typed, Positions, LenProperties
<1>2. e \in Nat /\ e > 1 /\ e <= U[line]
  <2> HIDE DEF U
  <2> QED
    BY <1>1 DEF LabelCommands
<1>3. 0 \in good
  BY <1>1, <1>2
<1>4. ASSUME NEW k \in Nat, k \in good
      PROVE  k + 1 \in good
  <2> SUFFICES ASSUME k + 1 <= line, e <= U[k + 1]
               PROVE  \E m \in 1..line : src[m].op = bin[e].cmd /\ e = U[m - 1] + 1
    OBVIOUS
  <2> DEFINE chunks == ChunksOf(src[k + 1])
  <2>1. k + 1 \in 1..line /\ (k + 1) - 1 = k /\ k + 1 \in DOMAIN src
    BY <1>1
  <2>2. /\ src[k + 1] \in LineType /\ U[k] \in Nat /\ U[k + 1] = U[k] + Len(chunks)
        /\ \A i \in 1..Len(chunks) : U[k] + i <= Len(bin) => bin[U[k] + i].cmd = chunks[i].cmd
    BY <2>1, LineOfBinary
  <2>3. Len(chunks) \in Nat
    BY <2>2, ChunksOfLine
  <2>4. \A i \in 1..Len(chunks) : chunks[i].cmd \in LabelCommands =>
         i = 1 /\ src[k + 1].op = chunks[i].cmd
    <3>1. CASE src[k + 1].op \in LabelCommands
      <4>1. Len(chunks) = 1 /\ chunks[1].cmd = src[k + 1].op
        BY <2>2, <3>1, ChunksOfLine, ShapeOfLine
      <4> HIDE DEF chunks
      <4> QED
        BY <4>1
    <3>2. CASE src[k + 1].op \notin LabelCommands
      BY <2>2, <3>2, ShapeOfLine DEF LabelCommands
    <3> QED
      BY <3>1, <3>2
  <2> HIDE DEF chunks, U
  <2>5. CASE e <= U[k]
    <3>1. k <= line
      BY <1>1
    <3> QED
      BY <1>4, <2>5, <3>1
  <2>6. CASE e > U[k]
    <3>1. e - U[k] \in 1..Len(chunks) /\ U[k] + (e - U[k]) = e /\ e <= Len(bin)
      BY <1>1, <1>2, <2>2, <2>3, <2>6, SMTT(30)
    <3>2. chunks[e - U[k]].cmd = bin[e].cmd
      BY <2>2, <3>1
    <3>3. e - U[k] = 1 /\ src[k + 1].op = bin[e].cmd
      BY <2>4, <3>1, <3>2
    <3>4. k + 1 \in 1..line /\ e = U[(k + 1) - 1] + 1
      BY <1>2, <2>1, <2>2, <3>3
    <3> QED
      BY <3>3, <3>4
  <2> QED
    BY <1>2, <2>2, <2>5, <2>6
<1> HIDE DEF good
<1>5. line \in good
  BY <1>1, <1>3, <1>4, SetInduction
<1>6. \E m \in 1..line : src[m].op = bin[e].cmd /\ e = U[m - 1] + 1
  BY <1>1, <1>2, <1>5 DEF good
<1> QED
  BY <1>6 DEF Position

LEMMA CallsAreLines ==
  ASSUME AssemblerConstants, AInv, LInv, stage = "done",
         NEW e \in 1..Len(bin), bin[e].cmd = "CALL"
  PROVE  \E k \in CallLines : e = Position(k) + 1
<1>1. e > 1 /\ bin[e].cmd \in LabelCommands
  <2>1. bin[1].cmd = "JMP"
    BY DEF LInv, Laid
  <2>2. e # 1
    BY <2>1
  <2> QED
    BY <2>2 DEF LabelCommands
<1>2. PICK k \in 1..line : src[k].op = bin[e].cmd /\ e = Position(k) + 1
  BY <1>1, JumpsAreLines
<1>3. k \in DOMAIN src
  BY Typed, LenProperties
<1> QED
  BY <1>2, <1>3 DEF CallLines
-------------------------------------------------------------------------------
(* What a step of the machine does to the carriage and the return stack.   *)
Here == bin[carriage + 1]

Halts ==
  /\ phase' \in {phase, "wild", "invalid", "halted"}
  /\ carriage' = carriage /\ ret' = ret

Advances ==
  /\ Here.cmd # "VOID" /\ phase' = phase /\ ret' = ret
  /\ carriage' = carriage + Width(Here.cmd, Here.mode)

JumpsTo ==
  /\ Here.cmd \in LabelCommands /\ phase' = phase /\ ret' = ret
  /\ carriage' = Machine!Target(Here.arg)

CallsTo ==
  /\ Here.cmd = "CALL" /\ phase' = phase
  /\ ret' = [ret EXCEPT !.elems = Append(ret.elems, carriage + 1)]
  /\ carriage' = Machine!Target(Here.arg)

ComesBack ==
  /\ Here.cmd = "RET" /\ phase' = phase
  /\ carriage' = Machine!Top(ret) /\ ret' = Machine!Popped(ret)

LEMMA InstructionMoves ==
  ASSUME Machine!Instruction
  PROVE  /\ bin' = bin /\ phase = "running" /\ carriage < Len(bin)
         /\ Halts \/ Advances \/ JumpsTo \/ CallsTo \/ ComesBack
<1> USE DEF Machine!At, Machine!Current, Machine!MoveCarriage, Here
<1>1. CASE Machine!Push
  <2>1. CASE Machine!PushLiteral
    BY <2>1 DEF Machine!PushLiteral, Machine!GoWild, Halts, Advances, Width
  <2>2. CASE Machine!PushRegister
    BY <2>2 DEF Machine!PushRegister, Machine!GoWild, Halts, Advances, Width
  <2>3. CASE Machine!PushRam
    BY <2>3 DEF Machine!PushRam, Machine!GoWild, Halts, Advances, Width
  <2>4. CASE Machine!PushInvalid
    BY <2>4 DEF Machine!PushInvalid, Halts
  <2> QED
    BY <1>1, <2>1, <2>2, <2>3, <2>4 DEF Machine!Push
<1>2. CASE Machine!Pop
  BY <1>2 DEF Machine!Pop, Machine!PopRegister, Machine!PopRam, Machine!GoWild,
              Halts, Advances, Width
<1>3. CASE Machine!NoOperand \/ Machine!In \/ Machine!Sqrt \/ Machine!Out
  BY <1>3 DEF Machine!NoOperand, Machine!In, Machine!Sqrt, Machine!Out, Advances, Width
<1>4. CASE Machine!Add \/ Machine!Sub \/ Machine!Mul \/ Machine!Div
  BY <1>4 DEF Machine!Add, Machine!Sub, Machine!Mul, Machine!Div, Machine!Compute,
              Advances, Width
<1>5. CASE Machine!Ret
  BY <1>5 DEF Machine!Ret, ComesBack
<1>6. CASE Machine!Jmp
  BY <1>6 DEF Machine!Jmp, JumpsTo, LabelCommands
<1>7. CASE Machine!Jae \/ Machine!Ja \/ Machine!Jbe \/ Machine!Jb \/ Machine!Je \/ Machine!Jne
  <2>1. PICK cmd \in {"JAE", "JA", "JBE", "JB", "JE", "JNE"}, outcomes \in SUBSET {-1, 0, 1} :
          Machine!JumpWhen(cmd, outcomes)
    BY <1>7 DEF Machine!Jae, Machine!Ja, Machine!Jbe, Machine!Jb, Machine!Je, Machine!Jne
  <2>2. cmd \in LabelCommands /\ cmd # "VOID" /\ \A mode : Width(cmd, mode) = 1
    BY DEF LabelCommands, Width
  <2> QED
    BY <2>1, <2>2 DEF Machine!JumpWhen, JumpsTo, Advances
<1>8. CASE Machine!Call
  BY <1>8 DEF Machine!Call, Machine!ReturnAddress, CallsTo
<1>9. CASE Machine!Hlt \/ Machine!Spin
  BY <1>9 DEF Machine!Hlt, Machine!Spin, Machine!vars, Halts
<1>10. CASE Machine!Draw
  BY <1>10 DEF Machine!Draw, Machine!GoWild, Halts, Advances, Width
<1> QED
  BY <1>1, <1>2, <1>3, <1>4, <1>5, <1>6, <1>7, <1>8, <1>9, <1>10 DEF Machine!Instruction
-------------------------------------------------------------------------------
(* While the machine runs, nothing of what has been compiled changes.      *)
LEMMA CodeStays ==
  ASSUME UNCHANGED Compiled, bin' = bin
  PROVE  /\ InstructionStarts' = InstructionStarts
         /\ UnresolvedJump' = UnresolvedJump /\ EndsInZeroData' = EndsInZeroData
         /\ WithinLimit' = WithinLimit /\ Addressable' = Addressable
         /\ stage' = stage
<1>1. InstructionStarts' = InstructionStarts
  BY DEF InstructionStarts
<1> QED
  BY <1>1 DEF Compiled, UnresolvedJump, EndsInZeroData, WithinLimit, Addressable, BufferChunks

(* What a step that keeps the machine running has to show.                 *)
LEMMA Arrived ==
  ASSUME stage = "done", UNCHANGED Compiled, bin' = bin, phase' = "running",
         carriage' \in Nat, ret' \in [elems : Seq(Nat), jammed : {FALSE}],
         \A i \in 1..Len(ret'.elems) :
           ret'.elems[i] \in 1..Len(bin) /\ bin[ret'.elems[i]].cmd = "CALL",
         Addressable =>
           /\ Landed(carriage')
           /\ \A i \in 1..Len(ret'.elems) : ret'.elems[i] \in InstructionStarts,
         WithinLimit /\ carriage' >= Len(bin) => UnresolvedJump \/ EndsInZeroData
  PROVE  TInv'
<1>1. /\ InstructionStarts' = InstructionStarts
      /\ UnresolvedJump' = UnresolvedJump /\ EndsInZeroData' = EndsInZeroData
      /\ WithinLimit' = WithinLimit /\ Addressable' = Addressable
      /\ stage' = "done"
  BY CodeStays
<1>2. Landed(carriage') = Landed(carriage)'
  BY <1>1 DEF Landed
<1>3. Addressable' =>
        /\ Landed(carriage)'
        /\ \A i \in 1..Len(ret'.elems) : ret'.elems[i] \in InstructionStarts'
  BY <1>1, <1>2, Zenon
<1>4. WithinLimit' /\ carriage' >= Len(bin') => UnresolvedJump' \/ EndsInZeroData'
  BY <1>1
<1> QED
  BY <1>1, <1>3, <1>4 DEF TInv

(* Facts that the steps of a running machine share.                        *)
LEMMA AtWork ==
  ASSUME AssemblerConstants, AInv, EInv, LInv, TInv, stage = "done", phase = "running",
         carriage < Len(bin)
  PROVE  /\ bin \in Seq(ChunkType) /\ Len(bin) \in Nat /\ carriage \in Nat
         /\ carriage + 1 \in 1..Len(bin)
         /\ Here.cmd \in LabelCommands => Machine!Target(Here.arg) \in Nat
         /\ Addressable => carriage + 1 \in InstructionStarts
         /\ WithinLimit => Addressable /\ bin[Len(bin)].cmd = "VOID"
<1>1. bin \in Seq(ChunkType) /\ Len(bin) \in Nat /\ carriage \in Nat
  BY LenProperties DEF AInv, AssemblerTypeOK, TInv
<1>2. carriage + 1 \in 1..Len(bin)
  BY <1>1
<1>3. Here \in ChunkType
  BY <1>1, <1>2, ElementOfSeq DEF Here
<1>4. Here.cmd \in LabelCommands => Machine!Target(Here.arg) \in Nat
  BY <1>1, <1>3 DEF ChunkType, Machine!Target, POISON_JMP_POS, Machine!POISON_JMP_POS
<1>5. Addressable => carriage + 1 \in InstructionStarts
  BY <1>1 DEF TInv, Landed
<1>6. WithinLimit => Addressable
  <2>1. BufferChunks \in Nat /\ CYCLE_LIMIT \in Nat /\ CYCLE_LIMIT <= ThreeBytes
    BY SourceIsTyped DEF AInv, AssemblerConstants
  <2> QED
    BY <2>1 DEF WithinLimit, Addressable, ThreeBytes
<1>7. WithinLimit => bin[Len(bin)].cmd = "VOID"
  BY DEF EInv, Finished, Complete, VoidChunk, Chunk
<1> QED
  BY <1>1, <1>2, <1>4, <1>5, <1>6, <1>7

(* Off the end a jump leads only from an unresolved address or to behind   *)
(* the data of a zero.                                                     *)
LEMMA JumpOff ==
  ASSUME AssemblerConstants, AInv, EInv, LInv, TInv, stage = "done", phase = "running",
         carriage < Len(bin), Here.cmd \in LabelCommands, WithinLimit,
         Machine!Target(Here.arg) >= Len(bin)
  PROVE  UnresolvedJump \/ EndsInZeroData
<1>1. /\ carriage + 1 \in 1..Len(bin) /\ carriage + 1 \in InstructionStarts
      /\ Addressable /\ bin[Len(bin)].cmd = "VOID" /\ Len(bin) \in Nat /\ bin \in Seq(ChunkType)
  BY AtWork
<1>2. CASE Here.arg = POISON_JMP_POS
  BY <1>1, <1>2 DEF UnresolvedJump, Here
<1>3. CASE Here.arg # POISON_JMP_POS
  <2>1. PICK k \in 0..line : Machine!Target(Here.arg) = ChunksUpTo(src)[k]
    BY <1>1, <1>3, JumpLands DEF Here
  <2>2. ChunksUpTo(src)[k] <= Len(bin) /\ ChunksUpTo(src)[k] \in Nat
    <3>1. src \in Seq(LineType) /\ line \in 0..Len(src) /\ Len(src) \in Nat
      BY Typed
    <3>2. k \in 0..Len(src) /\ (k = 0 \/ k \in 1..Len(src))
      BY <3>1
    <3>3. k \in 1..Len(src) => LineAt(bin, src, k)
      BY DEF EInv, Finished, Complete
    <3>4. ChunksUpTo(src)[0] = 1 /\ ChunksUpTo(src)[k] \in Nat
      BY <3>1, <3>2, Positions
    <3>5. Len(bin) >= 1
      BY <1>1, EmptySeq DEF LInv, Laid
    <3> QED
      BY <3>2, <3>3, <3>4, <3>5 DEF LineAt
  <2>3. ChunksUpTo(src)[k] = Len(bin)
    BY <1>1, <2>1, <2>2
  <2> QED
    BY <1>1, <2>3, EndOfLines
<1> QED
  BY <1>2, <1>3

LEMMA AdvanceStep ==
  ASSUME AssemblerConstants, AInv, EInv, LInv, TInv, stage = "done", phase = "running",
         carriage < Len(bin), UNCHANGED Compiled, bin' = bin, Advances
  PROVE  TInv'
<1> DEFINE w == Width(Here.cmd, Here.mode)
<1>1. /\ bin \in Seq(ChunkType) /\ Len(bin) \in Nat /\ carriage \in Nat
      /\ carriage + 1 \in 1..Len(bin)
      /\ Addressable => carriage + 1 \in InstructionStarts
      /\ WithinLimit => Addressable /\ bin[Len(bin)].cmd = "VOID"
  BY AtWork
<1>2. phase' = "running" /\ ret' = ret /\ carriage' = carriage + w /\ Here.cmd # "VOID"
  BY DEF Advances
<1>3. w = 1 \/ w = 2
  BY DEF Width
<1>4. Addressable => Landed(carriage + w)
  <2>1. Addressable => ((carriage + 1) + w <= Len(bin) => (carriage + 1) + w \in InstructionStarts)
    BY <1>1, StartsGrow DEF Here
  <2> HIDE DEF w
  <2>2. (carriage + 1) + w = (carriage + w) + 1
    BY <1>1, <1>3
  <2>3. ~ ((carriage + w) + 1 <= Len(bin)) => carriage + w >= Len(bin)
    BY <1>1, <1>3
  <2> QED
    BY <2>1, <2>2, <2>3 DEF Landed
<1>5. ASSUME WithinLimit, carriage + w >= Len(bin)
      PROVE  EndsInZeroData
  <2>1. carriage + 1 # Len(bin)
    BY <1>1, <1>2, <1>5 DEF Here
  <2>2. w = 2 /\ carriage + 1 = Len(bin) - 1
    <3> HIDE DEF w
    <3> QED
      BY <1>1, <1>3, <1>5, <2>1
  <2> QED
    BY <1>1, <1>5, <2>2 DEF EndsInZeroData, Here
<1> HIDE DEF w
<1>6. carriage' \in Nat
  BY <1>1, <1>2, <1>3
<1> QED
  BY <1>2, <1>4, <1>5, <1>6, Arrived DEF TInv

LEMMA JumpStep ==
  ASSUME AssemblerConstants, AInv, EInv, LInv, TInv, stage = "done", phase = "running",
         carriage < Len(bin), UNCHANGED Compiled, bin' = bin, JumpsTo
  PROVE  TInv'
<1>1. /\ phase' = "running" /\ ret' = ret /\ carriage' = Machine!Target(Here.arg)
      /\ Here.cmd \in LabelCommands
  BY DEF JumpsTo
<1>2. carriage' \in Nat /\ carriage + 1 \in 1..Len(bin)
  BY <1>1, AtWork
<1>3. Addressable => Landed(carriage')
  BY <1>1, <1>2, JumpLands DEF Here
<1>4. WithinLimit /\ carriage' >= Len(bin) => UnresolvedJump \/ EndsInZeroData
  BY <1>1, JumpOff
<1> QED
  BY <1>1, <1>2, <1>3, <1>4, Arrived DEF TInv

LEMMA CallsStep ==
  ASSUME AssemblerConstants, AInv, EInv, LInv, TInv, stage = "done", phase = "running",
         carriage < Len(bin), UNCHANGED Compiled, bin' = bin, CallsTo
  PROVE  TInv'
<1> DEFINE longer == Append(ret.elems, carriage + 1)
<1>1. /\ phase' = "running" /\ ret' = [ret EXCEPT !.elems = longer]
      /\ carriage' = Machine!Target(Here.arg)
      /\ Here.cmd = "CALL" /\ Here.cmd \in LabelCommands
  BY DEF CallsTo, LabelCommands
<1>2. /\ carriage' \in Nat /\ carriage + 1 \in 1..Len(bin) /\ carriage + 1 \in Nat
      /\ Addressable => carriage + 1 \in InstructionStarts
  BY <1>1, AtWork
<1>3. /\ ret \in [elems : Seq(Nat), jammed : {FALSE}] /\ ret.elems \in Seq(Nat)
      /\ \A i \in 1..Len(ret.elems) :
           /\ ret.elems[i] \in 1..Len(bin) /\ bin[ret.elems[i]].cmd = "CALL"
           /\ Addressable => ret.elems[i] \in InstructionStarts
  BY DEF TInv
<1>4. /\ longer \in Seq(Nat) /\ Len(longer) = Len(ret.elems) + 1 /\ Len(ret.elems) \in Nat
      /\ \A i \in 1..Len(ret.elems) : longer[i] = ret.elems[i]
      /\ longer[Len(ret.elems) + 1] = carriage + 1
  BY <1>2, <1>3, AppendProperties, LenProperties
<1> HIDE DEF longer
<1>5. ret' \in [elems : Seq(Nat), jammed : {FALSE}] /\ ret'.elems = longer
  BY <1>1, <1>3, <1>4
<1>6. \A i \in 1..Len(longer) :
        /\ longer[i] \in 1..Len(bin) /\ bin[longer[i]].cmd = "CALL"
        /\ Addressable => longer[i] \in InstructionStarts
  <2> SUFFICES ASSUME NEW i \in 1..Len(longer)
               PROVE  /\ longer[i] \in 1..Len(bin) /\ bin[longer[i]].cmd = "CALL"
                      /\ Addressable => longer[i] \in InstructionStarts
    OBVIOUS
  <2>1. CASE i = Len(ret.elems) + 1
    BY <1>1, <1>2, <1>4, <2>1 DEF Here
  <2>2. CASE i # Len(ret.elems) + 1
    <3>1. i \in 1..Len(ret.elems)
      BY <1>4, <2>2
    <3> QED
      BY <1>3, <1>4, <3>1
  <2> QED
    BY <2>1, <2>2
<1>7. Addressable => Landed(carriage')
  BY <1>1, <1>2, JumpLands DEF Here
<1>8. WithinLimit /\ carriage' >= Len(bin) => UnresolvedJump \/ EndsInZeroData
  BY <1>1, JumpOff
<1> QED
  BY <1>1, <1>2, <1>5, <1>6, <1>7, <1>8, Arrived

(* A return leads behind a call, and that is never the end of the binary.  *)
LEMMA ReturnStep ==
  ASSUME AssemblerConstants, AInv, EInv, LInv, TInv, stage = "done", phase = "running",
         carriage < Len(bin), UNCHANGED Compiled, bin' = bin, ComesBack
  PROVE  /\ TInv'
         /\ ret' # ret => \E k \in CallLines : carriage' = Position(k) + 1
<1>1. /\ ret \in [elems : Seq(Nat), jammed : {FALSE}] /\ ret.elems \in Seq(Nat)
      /\ ret.jammed = FALSE
      /\ \A i \in 1..Len(ret.elems) :
           /\ ret.elems[i] \in 1..Len(bin) /\ bin[ret.elems[i]].cmd = "CALL"
           /\ Addressable => ret.elems[i] \in InstructionStarts
  BY DEF TInv
<1>2. /\ phase' = "running" /\ carriage' = Machine!Top(ret) /\ ret' = Machine!Popped(ret)
  BY DEF ComesBack
<1>3. /\ Len(bin) \in Nat /\ Len(bin) >= 1 /\ bin \in Seq(ChunkType)
      /\ WithinLimit => Addressable /\ bin[Len(bin)].cmd = "VOID"
  BY AtWork
<1>4. CASE ret.elems = << >>
  <2>1. carriage' = 0 /\ ret' = ret
    BY <1>2, <1>4 DEF Machine!Top, Machine!Popped, Machine!Refuses
  <2>2. 1 \in InstructionStarts
    BY <1>3, StartsGrow
  <2>3. Landed(carriage') /\ carriage' \in Nat /\ ~ (carriage' >= Len(bin))
    BY <1>3, <2>1, <2>2 DEF Landed
  <2> QED
    BY <1>1, <1>2, <2>1, <2>3, Arrived
<1>5. CASE ret.elems # << >>
  <2> DEFINE shorter == SubSeq(ret.elems, 1, Len(ret.elems) - 1)
             e == ret.elems[Len(ret.elems)]
  <2>1. carriage' = e /\ ret' = [ret EXCEPT !.elems = shorter]
    BY <1>1, <1>2, <1>5 DEF Machine!Top, Machine!Popped, Machine!Refuses
  <2>2. /\ shorter \in Seq(Nat) /\ Len(shorter) = Len(ret.elems) - 1
        /\ \A i \in 1..(Len(ret.elems) - 1) : shorter[i] = ret.elems[i]
    BY <1>1, <1>5, WithoutLast
  <2>3. Len(ret.elems) \in Nat /\ Len(ret.elems) \in 1..Len(ret.elems)
    BY <1>1, <1>5, LenProperties, EmptySeq
  <2>4. e \in 1..Len(bin) /\ bin[e].cmd = "CALL" /\ (Addressable => e \in InstructionStarts)
    BY <1>1, <2>3
  <2> HIDE DEF shorter, e
  <2>5. ret' \in [elems : Seq(Nat), jammed : {FALSE}] /\ ret'.elems = shorter
    BY <1>1, <2>1, <2>2
  <2>6. \A i \in 1..Len(shorter) :
          /\ shorter[i] \in 1..Len(bin) /\ bin[shorter[i]].cmd = "CALL"
          /\ Addressable => shorter[i] \in InstructionStarts
    <3>a. 1..Len(shorter) = 1..(Len(ret.elems) - 1)
      BY <2>2
    <3>b. \A i \in 1..(Len(ret.elems) - 1) : i \in 1..Len(ret.elems)
      BY <2>3
    <3>1. \A i \in 1..Len(shorter) : i \in 1..Len(ret.elems) /\ shorter[i] = ret.elems[i]
      BY <2>2, <3>a, <3>b, Zenon
    <3> QED
      BY <1>1, <3>1
  <2>7. Addressable => Landed(e)
    <3>1. Width(bin[e].cmd, bin[e].mode) = 1
      BY <2>4 DEF Width
    <3>2. Addressable => (e + 1 <= Len(bin) => e + 1 \in InstructionStarts)
      BY <1>3, <2>4, <3>1, StartsGrow
    <3> QED
      BY <1>3, <2>4, <3>2 DEF Landed
  <2>8. WithinLimit => ~ (e >= Len(bin))
    BY <1>3, <2>4
  <2>9. TInv'
    BY <1>2, <2>1, <2>4, <2>5, <2>6, <2>7, <2>8, Arrived
  <2>10. \E k \in CallLines : e = Position(k) + 1
    BY <2>4, CallsAreLines
  <2> QED
    BY <2>1, <2>9, <2>10
<1> QED
  BY <1>4, <1>5

(* A machine that has stopped stays as it is.                              *)
LEMMA StoppedStep ==
  ASSUME TInv, stage = "done", UNCHANGED Compiled, bin' = bin, carriage' = carriage, ret' = ret,
         phase' \in {"failed", "wild", "invalid", "halted", "ended"},
         phase' = "ended" => (WithinLimit => UnresolvedJump \/ EndsInZeroData)
  PROVE  TInv'
<1>1. /\ stage' = "done" /\ phase' # "ready" /\ phase' # "running"
      /\ phase' = "ended" => (WithinLimit' => UnresolvedJump' \/ EndsInZeroData')
  BY CodeStays
<1>2. /\ carriage' \in Nat /\ ret' \in [elems : Seq(Nat), jammed : {FALSE}]
      /\ \A i \in 1..Len(ret'.elems) :
           ret'.elems[i] \in 1..Len(bin') /\ bin'[ret'.elems[i]].cmd = "CALL"
  BY DEF TInv
<1> QED
  BY <1>1, <1>2 DEF TInv

LEMMA HaltStep ==
  ASSUME TInv, stage = "done", phase = "running", UNCHANGED Compiled, bin' = bin, Halts
  PROVE  TInv'
<1>1. carriage' = carriage /\ ret' = ret /\ phase' \in {"running", "wild", "invalid", "halted"}
  BY DEF Halts
<1>2. CASE phase' = "running"
  BY <1>1, <1>2, Arrived DEF TInv
<1>3. CASE phase' # "running"
  BY <1>1, <1>3, StoppedStep
<1> QED
  BY <1>2, <1>3

LEMMA StartStep ==
  ASSUME AssemblerConstants, AInv, LInv, TInv, stage = "done", UNCHANGED Compiled, Machine!Start
  PROVE  TInv'
<1>1. /\ phase = "ready" /\ phase' \in {"running", "failed"}
      /\ bin' = bin /\ carriage' = carriage /\ ret' = ret
  BY DEF Machine!Start
<1>2. carriage = 0 /\ ret.elems = << >> /\ Len(ret.elems) = 0
  BY <1>1 DEF TInv, Machine!EmptyStack
<1>3. Len(bin) \in Nat /\ Len(bin) >= 1
  BY LenProperties, EmptySeq DEF AInv, AssemblerTypeOK, LInv, Laid
<1>4. Landed(0) /\ ~ (0 >= Len(bin))
  <2>1. 1 \in InstructionStarts
    BY <1>3, StartsGrow
  <2> QED
    BY <1>3, <2>1 DEF Landed
<1>5. carriage' = 0 /\ \A i \in 1..Len(ret'.elems) : FALSE
  BY <1>1, <1>2
<1>6. carriage' \in Nat /\ ret' \in [elems : Seq(Nat), jammed : {FALSE}]
  BY <1>1 DEF TInv
<1>7. CASE phase' = "running"
  <2>1. Landed(carriage') /\ ~ (carriage' >= Len(bin))
    BY <1>4, <1>5
  <2> QED
    BY <1>1, <1>5, <1>6, <1>7, <2>1, Arrived
<1>8. CASE phase' = "failed"
  BY <1>1, <1>8, StoppedStep
<1> QED
  BY <1>1, <1>7, <1>8

LEMMA FinishStep ==
  ASSUME TInv, stage = "done", UNCHANGED Compiled, Machine!Finish
  PROVE  TInv'
<1>1. /\ phase = "running" /\ phase' = "ended" /\ carriage >= Len(bin)
      /\ bin' = bin /\ carriage' = carriage /\ ret' = ret
  BY DEF Machine!Finish
<1>2. WithinLimit => UnresolvedJump \/ EndsInZeroData
  BY <1>1 DEF TInv
<1> QED
  BY <1>1, <1>2, StoppedStep

LEMMA ExecuteStep ==
  ASSUME AssemblerConstants, AInv, EInv, LInv, TInv, Execute
  PROVE  TInv' /\ UNCHANGED avars
<1>1. stage = "done" /\ Machine!Next /\ UNCHANGED Compiled
  BY DEF Execute
<1>2. CASE Machine!Start
  BY <1>1, <1>2, StartStep DEF Machine!Start, Compiled, avars
<1>3. CASE Machine!Finish
  BY <1>1, <1>3, FinishStep DEF Machine!Finish, Compiled, avars
<1>4. CASE Machine!Instruction
  <2>1. /\ bin' = bin /\ phase = "running" /\ carriage < Len(bin)
        /\ Halts \/ Advances \/ JumpsTo \/ CallsTo \/ ComesBack
    BY <1>4, InstructionMoves
  <2>2. UNCHANGED avars
    BY <1>1, <2>1 DEF Compiled, avars
  <2> QED
    BY <1>1, <2>1, <2>2, HaltStep, AdvanceStep, JumpStep, CallsStep, ReturnStep
<1> QED
  BY <1>1, <1>2, <1>3, <1>4 DEF Machine!Next

LEMMA CompileStep ==
  ASSUME TInv, Compile
  PROVE  TInv'
<1>1. /\ stage # "done"
      /\ UNCHANGED <<phase, carriage, user, ret, regs, ram, out>>
  BY DEF Compile, machine, ANext, ParseHumanCode, EnvironmentFails, EmitLine, EmitDone,
         ArrangeFound, ArrangeMissing, ArrangeDone, ReduceBufferSize, CreateBin
<1>2. phase = "ready" /\ carriage = 0 /\ ret = Machine!EmptyStack
  BY <1>1 DEF TInv
<1>3. ret.elems = << >> /\ Len(ret.elems) = 0
  BY <1>2 DEF Machine!EmptyStack
<1>4. /\ phase' = "ready" /\ carriage' = 0 /\ ret' = Machine!EmptyStack'
      /\ \A i \in 1..Len(ret'.elems) : FALSE
  BY <1>1, <1>2, <1>3 DEF Machine!EmptyStack
<1>5. carriage' \in Nat /\ ret' \in [elems : Seq(Nat), jammed : {FALSE}]
  BY <1>1 DEF TInv
<1> QED
  BY <1>4, <1>5 DEF TInv

LEMMA ToolchainStutters ==
  ASSUME TInv, UNCHANGED tvars
  PROVE  TInv'
<1>1. /\ UNCHANGED Compiled /\ bin' = bin
      /\ UNCHANGED <<phase, carriage, user, ret, regs, ram, out>>
  BY DEF tvars, avars, machine, Compiled
<1>2. /\ InstructionStarts' = InstructionStarts
      /\ UnresolvedJump' = UnresolvedJump /\ EndsInZeroData' = EndsInZeroData
      /\ WithinLimit' = WithinLimit /\ Addressable' = Addressable
      /\ stage' = stage
  BY <1>1, CodeStays
<1>3. Landed(carriage)' = Landed(carriage)
  BY <1>1, <1>2 DEF Landed
<1>4. (Machine!EmptyStack)' = Machine!EmptyStack
  BY DEF Machine!EmptyStack
<1> QED
  BY <1>1, <1>2, <1>3, <1>4 DEF TInv

LEMMA MachineAtFirst ==
  ASSUME TInit
  PROVE  TInv
<1>1. << >> \in Seq(Nat) /\ Len(<< >>) = 0
  BY EmptySeq
<1> QED
  BY <1>1 DEF TInit, AInit, TInv, Machine!EmptyStack
-------------------------------------------------------------------------------
(* A step of the machine is none of the assembler.                         *)
LEMMA CompilerSteps == [TNext]_tvars => [ANext]_avars
<1>1. ASSUME Compile
      PROVE  [ANext]_avars
  BY <1>1 DEF Compile
<1>2. ASSUME Execute
      PROVE  UNCHANGED avars
  <2>1. Machine!Next /\ UNCHANGED Compiled
    BY <1>2 DEF Execute
  <2>2. bin' = bin
    BY <2>1, InstructionMoves DEF Machine!Next, Machine!Start, Machine!Finish
  <2> QED
    BY <2>1, <2>2 DEF Compiled, avars
<1> QED
  BY <1>1, <1>2 DEF TNext, tvars

(* What runs does not change what has been compiled: the assembler and the *)
(* machine behind it follow the assembler's specification.                 *)
THEOREM AssemblerWithinToolchain == TSpec => ASpec
<1>1. TInit => AInit
  BY DEF TInit
<1> QED
  BY <1>1, CompilerSteps, PTL DEF TSpec, ASpec

LEMMA ToolchainInvariance == TSpec => [](AInv /\ EInv /\ LInv /\ TInv)
<1>1. TInit => TInv
  BY MachineAtFirst
<1>2. AInv /\ EInv /\ LInv /\ TInv /\ [TNext]_tvars => TInv'
  BY AssemblerConstants, ExecuteStep, CompileStep, ToolchainStutters DEF TNext
<1> QED
  BY <1>1, <1>2, AssemblerWithinToolchain, LayoutInvariance, PTL DEF TSpec

LEMMA Fetched == AInv /\ TInv => FetchesInstructions
<1> SUFFICES ASSUME AInv, TInv, phase = "running", carriage < Len(bin), Addressable
             PROVE  carriage + 1 \in InstructionStarts
  BY DEF FetchesInstructions, Running
<1>1. Landed(carriage) /\ Len(bin) \in Nat /\ carriage \in Nat
  BY LenProperties DEF TInv, AInv, AssemblerTypeOK
<1> QED
  BY <1>1 DEF Landed

(* The machine never takes an argument for a command.                      *)
THEOREM InstructionsAreFetched == TSpec => []FetchesInstructions
BY Fetched, ToolchainInvariance, PTL

(* process() runs off the end of the code only through a jump no label was *)
(* found for, or from a last line that pushes or draws a zero.             *)
THEOREM EndIsOffTheCode == TSpec => []EndsOnlyOffTheCode
<1>1. TInv => EndsOnlyOffTheCode
  BY DEF TInv, EndsOnlyOffTheCode
<1> QED
  BY <1>1, ToolchainInvariance, PTL

(* A ret that takes something from the return stack leads to the line      *)
(* behind a call of the source.                                            *)
THEOREM CallsReturn == TSpec => ReturnsToTheNextLine
<1> DEFINE Returning ==
             stage = "done" /\ WithinLimit /\ ret' # ret /\ Len(ret'.elems) < Len(ret.elems)
           Behind == \E k \in CallLines : carriage' = Position(k) + 1
<1>1. AInv /\ EInv /\ LInv /\ TInv /\ [TNext]_tvars => [Returning => Behind]_tvars
  <2> SUFFICES ASSUME AInv, EInv, LInv, TInv, TNext, Returning
               PROVE  Behind
    BY DEF TNext
  <2>1. CASE Compile
    BY <2>1 DEF Compile, machine
  <2>2. CASE Execute
    <3>1. stage = "done" /\ Machine!Next /\ UNCHANGED Compiled
      BY <2>2 DEF Execute
    <3>2. ~ Machine!Start /\ ~ Machine!Finish
      BY DEF Machine!Start, Machine!Finish
    <3>3. Machine!Instruction
      BY <3>1, <3>2 DEF Machine!Next
    <3>4. /\ bin' = bin /\ phase = "running" /\ carriage < Len(bin)
          /\ Halts \/ Advances \/ JumpsTo \/ CallsTo \/ ComesBack
      BY <3>3, InstructionMoves
    <3>5. ~ Halts /\ ~ Advances /\ ~ JumpsTo
      BY DEF Halts, Advances, JumpsTo
    <3>6. ~ CallsTo
      <4> SUFFICES ASSUME CallsTo
                   PROVE  FALSE
        OBVIOUS
      <4> DEFINE longer == Append(ret.elems, carriage + 1)
      <4>1. ret \in [elems : Seq(Nat), jammed : {FALSE}] /\ carriage \in Nat
        BY DEF TInv
      <4>2. Len(longer) = Len(ret.elems) + 1 /\ Len(ret.elems) \in Nat
        BY <4>1, AppendProperties, LenProperties
      <4>3. ret' = [ret EXCEPT !.elems = longer]
        BY DEF CallsTo
      <4> HIDE DEF longer
      <4>4. ret'.elems = longer
        BY <4>1, <4>3
      <4> QED
        BY <4>2, <4>4
    <3>7. ComesBack
      BY <3>4, <3>5, <3>6
    <3> QED
      BY <3>1, <3>4, <3>7, AssemblerConstants, ReturnStep
  <2> QED
    BY <2>1, <2>2 DEF TNext
<1>2. [][Returning => Behind]_tvars => ReturnsToTheNextLine
  BY DEF ReturnsToTheNextLine
<1> QED
  BY <1>1, <1>2, ToolchainInvariance, PTL DEF TSpec

-------------------------------------------------------------------------------
(* ptr_arranger writes one pointer more than count_file_lines has counted  *)
(* exactly when the text does not end in a newline.                        *)

(* The lines but the first begin behind the newlines but the last.         *)
Inner(buf) == {i \in 1..(Len(buf) - 1) : buf[i] = Newline}

(* There are as many lines as newlines that do not end the text, and one.  *)
LEMMA StartsCounted ==
  ASSUME NEW S, NEW buf \in Seq(S), buf # << >>
  PROVE  /\ IsFiniteSet(Inner(buf))
         /\ Cardinality(LineStarts(buf)) = Cardinality(Inner(buf)) + 1
<1> DEFINE later == {i \in 2..Len(buf) : buf[i - 1] = Newline}
<1>1. Len(buf) \in Nat \ {0}
  OBVIOUS
<1>2. IsFiniteSet(Inner(buf)) /\ IsFiniteSet(later)
  <2>1. IsFiniteSet(1..(Len(buf) - 1)) /\ IsFiniteSet(2..Len(buf))
    BY <1>1, FS_Interval
  <2>2. Inner(buf) \subseteq 1..(Len(buf) - 1) /\ later \subseteq 2..Len(buf)
    BY DEF Inner
  <2> QED BY <2>1, <2>2, FS_Subset
<1>3. Cardinality(later) = Cardinality(Inner(buf))
  <2> DEFINE behind == [i \in Inner(buf) |-> i + 1]
  <2>1. behind \in Bijection(Inner(buf), later)
    <3>1. \A i \in Inner(buf) : i + 1 \in later
      BY <1>1 DEF Inner
    <3>2. \A j \in later : j - 1 \in Inner(buf) /\ behind[j - 1] = j
      BY <1>1 DEF Inner
    <3>3. \A i, k \in Inner(buf) : i + 1 = k + 1 => i = k
      BY DEF Inner
    <3>4. behind \in [Inner(buf) -> later] /\ IsInjective(behind)
      BY <3>1, <3>3 DEF IsInjective
    <3>5. \A j \in later : \E i \in Inner(buf) : behind[i] = j
      BY <3>2
    <3> HIDE DEF behind, later
    <3> QED BY <3>4, <3>5 DEF Bijection, Injection, Surjection
  <2> QED BY <2>1, <1>2, FS_Bijection DEF ExistsBijection
<1>4. LineStarts(buf) = later \cup {1}
  BY <1>1 DEF LineStarts, BeginsLine
<1>5. 1 \notin later
  OBVIOUS
<1> QED BY <1>2, <1>3, <1>4, <1>5, FS_AddElement

(* The pointers fit the array that count_file_lines measured if, and only  *)
(* if, the text ends in a newline: file_parse() and compile() are safe     *)
(* with the files the compiler writes itself, and write behind the array   *)
(* with a config file or an assembly text whose last line is not ended.    *)
THEOREM PointersFitIffEnded ==
  ASSUME NEW S, NEW buf \in Seq(S), buf # << >>
  PROVE  PointersFit(buf) <=> buf[Len(buf)] = Newline
<1>1. Len(buf) \in Nat \ {0}
  OBVIOUS
<1>2. /\ IsFiniteSet(Inner(buf))
      /\ Cardinality(Inner(buf)) \in Nat
      /\ Cardinality(LineStarts(buf)) = Cardinality(Inner(buf)) + 1
  BY StartsCounted, FS_CardinalityType
<1>3. CASE buf[Len(buf)] = Newline
  <2>1. Newlines(buf) = Inner(buf) \cup {Len(buf)} /\ Len(buf) \notin Inner(buf)
    BY <1>1, <1>3 DEF Newlines, Inner
  <2>2. Cardinality(Newlines(buf)) = Cardinality(Inner(buf)) + 1
    BY <1>2, <2>1, FS_AddElement
  <2> QED BY <1>2, <1>3, <2>2 DEF PointersFit, count_file_lines
<1>4. CASE buf[Len(buf)] # Newline
  <2>1. Newlines(buf) = Inner(buf)
    BY <1>1, <1>4 DEF Newlines, Inner
  <2> QED BY <1>2, <1>4, <2>1 DEF PointersFit, count_file_lines
<1> QED BY <1>3, <1>4

(* When they fit, none of the counted lines is left without its pointer:   *)
(* compile() reads no line through an entry that calloc left NULL.         *)
THEOREM NoLineLeftOut ==
  ASSUME NEW S, NEW buf \in Seq(S), buf # << >>, PointersFit(buf)
  PROVE  Cardinality(LineStarts(buf)) = count_file_lines(buf)
<1>1. buf[Len(buf)] = Newline
  BY PointersFitIffEnded
<1>2. Len(buf) \in Nat \ {0}
  OBVIOUS
<1>3. Newlines(buf) = Inner(buf) \cup {Len(buf)} /\ Len(buf) \notin Inner(buf)
  BY <1>1, <1>2 DEF Newlines, Inner
<1>4. Cardinality(Newlines(buf)) = Cardinality(Inner(buf)) + 1
  BY <1>3, StartsCounted, FS_AddElement
<1> QED BY <1>4, StartsCounted DEF count_file_lines
-------------------------------------------------------------------------------
(* The text that assembly() has written is read line by line.              *)
Odd(k) == [j \in 1..k |-> 2 * j - 1]

LEMMA LastOfInterval ==
  ASSUME NEW m \in Nat, NEW n \in Nat, 1..m = 1..n
  PROVE  m = n
<1>1. m = 0 \/ m \in 1..n
  OBVIOUS
<1>2. n = 0 \/ n \in 1..m
  OBVIOUS
<1> QED
  BY <1>1, <1>2

LEMMA SymbolsOfText ==
  ASSUME NEW S, NEW lines \in Seq(S), Newline \notin S
  PROVE  /\ Len(lines) \in Nat /\ Len(Written(lines)) = 2 * Len(lines)
         /\ Written(lines) \in Seq(S \cup {Newline})
         /\ \A k \in 1..Len(lines) :
              /\ Written(lines)[2 * k - 1] = lines[k] /\ Written(lines)[2 * k] = Newline
              /\ lines[k] # Newline
<1> DEFINE text == Written(lines)
<1>1. Len(lines) \in Nat /\ \A k \in 1..Len(lines) : lines[k] \in S
  BY LenProperties, ElementOfSeq
<1>2. \A k \in Nat : (2 * k - 1) % 2 = 1 /\ ((2 * k - 1) + 1) \div 2 = k /\ (2 * k) % 2 = 0
  OBVIOUS
<1>3. ASSUME NEW i \in 1..(2 * Len(lines)), i % 2 = 1
      PROVE  (i + 1) \div 2 \in 1..Len(lines)
  BY <1>1, <1>3
<1>4. \A i \in 1..(2 * Len(lines)) : text[i] \in S \cup {Newline}
  BY <1>1, <1>3 DEF Written
<1>5. text \in Seq(S \cup {Newline}) /\ Len(text) = 2 * Len(lines)
  <2> DEFINE n == 2 * Len(lines)
             elem(i) == IF i % 2 = 1 THEN lines[(i + 1) \div 2] ELSE Newline
  <2>1. n \in Nat
    BY <1>1
  <2>2. text = [i \in 1..n |-> elem(i)]
    BY DEF Written
  <2>3. \A i \in 1..n : elem(i) \in S \cup {Newline}
    BY <1>1, <1>3
  <2> HIDE DEF text, n, elem
  <2>4. text \in [1..n -> S \cup {Newline}]
    BY <2>2, <2>3
  <2>5. text \in Seq(S \cup {Newline})
    BY <2>1, <2>4
  <2>6. Len(text) \in Nat /\ DOMAIN text = 1..Len(text) /\ DOMAIN text = 1..n
    BY <2>4, <2>5, LenProperties
  <2>7. Len(text) = n
    BY <2>1, <2>6, LastOfInterval
  <2> QED
    BY <2>5, <2>7 DEF n
<1>6. ASSUME NEW k \in 1..Len(lines)
      PROVE  text[2 * k - 1] = lines[k] /\ text[2 * k] = Newline /\ lines[k] # Newline
  <2>1. 2 * k - 1 \in 1..(2 * Len(lines)) /\ 2 * k \in 1..(2 * Len(lines)) /\ k \in Nat
    BY <1>1
  <2> QED
    BY <1>1, <1>2, <2>1 DEF Written
<1> QED
  BY <1>1, <1>5, <1>6
(* ptr_arranger points at every other symbol.                              *)
LEMMA PointersOfText ==
  ASSUME NEW S, NEW lines \in Seq(S), Newline \notin S
  PROVE  ptr_arranger(Written(lines)) = Odd(Len(lines))
<1> DEFINE text == Written(lines)
           w == [i \in 1..Len(text) |-> IF BeginsLine(text, i) THEN << i >> ELSE << >>]
           upTo == CHOOSE f : f = [i \in 0..Len(text) |->
                                     IF i = 0 THEN << >>
                                     ELSE f[i - 1] \o (IF BeginsLine(text, i) THEN << i >> ELSE << >>)]
<1>1. Len(lines) \in Nat /\ Len(text) = 2 * Len(lines) /\ Len(text) \in Nat
  <2>1. Len(lines) \in Nat /\ Len(text) = 2 * Len(lines)
    BY SymbolsOfText
  <2>2. 2 * Len(lines) \in Nat
    BY <2>1
  <2> QED BY <2>1, <2>2
<1>2. ptr_arranger(text) = upTo[Len(text)]
  BY DEF ptr_arranger
<1>3. upTo = [i \in 0..Len(text) |->
                IF i = 0 THEN << >>
                ELSE upTo[i - 1] \o (IF BeginsLine(text, i) THEN << i >> ELSE << >>)]
  <2>1. PICK f : AppendedUpTo(f, w, Len(text))
    BY <1>1, GatheringsExist
  <2>2. \A i \in 0..Len(text) : i # 0 => i \in 1..Len(text)
    BY <1>1
  <2>3. f = [i \in 0..Len(text) |->
               IF i = 0 THEN << >>
               ELSE f[i - 1] \o (IF BeginsLine(text, i) THEN << i >> ELSE << >>)]
    <3>1. f = [i \in 0..Len(text) |-> IF i = 0 THEN << >> ELSE f[i - 1] \o w[i]]
      BY <2>1 DEF AppendedUpTo
    <3>2. \A i \in 0..Len(text) :
            (IF i = 0 THEN << >> ELSE f[i - 1] \o w[i])
              = IF i = 0 THEN << >>
                ELSE f[i - 1] \o (IF BeginsLine(text, i) THEN << i >> ELSE << >>)
      BY <2>2
    <3> HIDE DEF text, w
    <3> QED BY <3>1, <3>2
  <2> HIDE DEF text, w
  <2> QED BY <2>3
<1> HIDE DEF upTo, w
<1>4. upTo[0] = << >>
  BY <1>1, <1>3
<1>5. \A i \in 1..Len(text) :
        upTo[i] = upTo[i - 1] \o (IF BeginsLine(text, i) THEN << i >> ELSE << >>)
  <2>1. \A i \in 1..Len(text) : i \in 0..Len(text) /\ i # 0
    BY <1>1
  <2> HIDE DEF text
  <2> QED BY <1>3, <2>1
<1> DEFINE good == {k \in Nat : k <= Len(lines) => upTo[2 * k] = Odd(k)}
<1>6. 0 \in good
  BY <1>4 DEF Odd
<1>7. ASSUME NEW k \in Nat, k \in good PROVE k + 1 \in good
  <2> SUFFICES ASSUME k + 1 <= Len(lines) PROVE upTo[2 * (k + 1)] = Odd(k + 1)
    OBVIOUS
  <2>1. upTo[2 * k] = Odd(k)
    BY <1>1, <1>7
  <2>2. /\ 2 * k + 1 \in 1..Len(text) /\ 2 * k + 2 \in 1..Len(text)
        /\ (2 * k + 1) - 1 = 2 * k /\ (2 * k + 2) - 1 = 2 * k + 1
    BY <1>1
  <2>3. BeginsLine(text, 2 * k + 1)
    <3>1. CASE k = 0
      BY <3>1 DEF BeginsLine
    <3>2. CASE k # 0
      <4>1. k \in 1..Len(lines)
        BY <1>1, <3>2
      <4>2. text[2 * k] = Newline
        BY <4>1, SymbolsOfText
      <4> QED BY <2>2, <4>2 DEF BeginsLine
    <3> QED BY <3>1, <3>2
  <2>4. ~ BeginsLine(text, 2 * k + 2)
    <3>1. k + 1 \in 1..Len(lines) /\ 2 * (k + 1) - 1 = 2 * k + 1
      BY <1>1
    <3>2. text[2 * (k + 1) - 1] = lines[k + 1] /\ lines[k + 1] # Newline
      BY <3>1, SymbolsOfText
    <3> QED BY <2>2, <3>1, <3>2 DEF BeginsLine
  <2>5. upTo[2 * k + 1] = Odd(k) \o << 2 * k + 1 >>
    BY <1>5, <2>1, <2>2, <2>3
  <2>6. upTo[2 * k + 2] = upTo[2 * k + 1] \o << >>
    BY <1>5, <2>2, <2>4
  <2> DEFINE next == << 2 * k + 1 >>
             longer == Odd(k) \o next
  <2>7. longer \in Seq(Nat) /\ longer = Odd(k + 1)
    <3>1. \A n \in Nat : Odd(n) \in Seq(Nat) /\ Len(Odd(n)) = n
      BY DEF Odd
    <3>2. next \in Seq(Nat) /\ Len(next) = 1 /\ next[1] = 2 * k + 1
      OBVIOUS
    <3> HIDE DEF next
    <3>a. Odd(k) \in Seq(Nat) /\ Len(Odd(k)) = k
      BY <3>1
    <3>3. /\ longer \in Seq(Nat) /\ Len(longer) = Len(Odd(k)) + Len(next)
          /\ \A i \in 1..(Len(Odd(k)) + Len(next)) :
               longer[i] = IF i <= Len(Odd(k)) THEN Odd(k)[i] ELSE next[i - Len(Odd(k))]
      BY <3>a, <3>2, ConcatProperties
    <3> HIDE DEF longer
    <3>b. /\ Len(longer) = k + 1
          /\ \A i \in 1..(k + 1) : longer[i] = IF i <= k THEN Odd(k)[i] ELSE next[i - k]
      BY <3>a, <3>2, <3>3
    <3>4. \A i \in 1..(k + 1) : longer[i] = Odd(k + 1)[i]
      BY <3>2, <3>b DEF Odd
    <3>5. Odd(k + 1) \in Seq(Nat) /\ Len(Odd(k + 1)) = k + 1
      BY <3>1
    <3> QED BY <3>3, <3>b, <3>4, <3>5, SeqEqual
  <2>8. upTo[2 * k + 2] = Odd(k + 1)
    BY <2>5, <2>6, <2>7, ConcatEmptySeq
  <2>9. 2 * (k + 1) = 2 * k + 2
    OBVIOUS
  <2> QED BY <2>8, <2>9
<1>8. Len(lines) \in good
  <2> HIDE DEF good
  <2> QED BY <1>1, <1>6, <1>7, SetInduction
<1> QED
  BY <1>1, <1>2, <1>8

(* The text that is written for some lines is cut into these lines again.  *)
LEMMA LinesComeBack ==
  ASSUME NEW S, NEW lines \in Seq(S), Newline \notin S, lines # << >>
  PROVE  /\ PointersFit(Written(lines))
         /\ LinesAt(Written(lines), ptr_arranger(Written(lines))) = lines
<1> DEFINE text == Written(lines)
           n == Len(lines)
<1>1. /\ n \in Nat /\ n # 0 /\ text \in Seq(S \cup {Newline}) /\ Len(text) = 2 * n
      /\ \A k \in 1..n : text[2 * k - 1] = lines[k] /\ text[2 * k] = Newline
  BY SymbolsOfText, EmptySeq
<1>2. ptr_arranger(text) = Odd(n)
  BY PointersOfText
<1> HIDE DEF text, n
<1>3. PointersFit(text)
  <2>1. n \in 1..n /\ text # << >>
    BY <1>1
  <2> QED BY <1>1, <2>1, PointersFitIffEnded
<1>4. LinesAt(text, Odd(n)) = lines
  <2>1. DOMAIN Odd(n) = 1..n /\ \A k \in 1..n : Odd(n)[k] = 2 * k - 1
    BY <1>1 DEF Odd
  <2>2. LinesAt(text, Odd(n)) = [k \in 1..n |-> lines[k]]
    BY <1>1, <2>1 DEF LinesAt
  <2>3. lines = [k \in 1..n |-> lines[k]]
    BY LenProperties DEF n
  <2> QED BY <2>2, <2>3
<1> QED
  BY <1>2, <1>3, <1>4 DEF text
-------------------------------------------------------------------------------
(* The chain of a program: what the assembler is given is what the backend *)
(* has written.                                                            *)

(* compile() and execute() have not been called yet.                       *)
Rest ==
  /\ line = 0 /\ quiet = 0
  /\ code = << >> /\ labels = << >> /\ jmps = << >>
  /\ jmp = 0
  /\ found = FALSE /\ error = FALSE
  /\ bin = << >>
  /\ phase = "ready"
  /\ carriage = 0
  /\ user = Machine!EmptyStack
  /\ ret = Machine!EmptyStack
  /\ regs = [r \in Machine!Registers |-> 0]
  /\ ram = [x \in Machine!Addresses |-> 0]
  /\ out = << >>

(* The text ends with a hlt.                                               *)
Closed == asm_file # << >> /\ asm_file[Len(asm_file)] = NoArg("HLT")

(* The entry jump keeps its name, and the finished code is the file.       *)
Settled ==
  /\ stage \in {"emit", "arrange"} => jmps[1].name = MainName
  /\ stage = "done" => bin = code

BackendPart ==
  /\ bstage = "wait" =>
       stage = "wait" /\ mngrs = << NoTables >> /\ label_ct = 0 /\ asm_file = << >>
  /\ bstage # "wait" => BInv /\ TypeInv
  /\ bstage = "written" => Closed

AssemblerPart ==
  /\ stage = "wait" => Rest
  /\ stage # "wait" => /\ bstage = "written" /\ src = asm_file
                       /\ AInv /\ EInv /\ LInv /\ TInv /\ Settled

(* The assembler can be given any lines.                                   *)
AnyLines == Seq(AsmLine) \subseteq Sources /\ Newline \notin AsmLine

(* What the midend hands over has names where there have to be any.        *)
NamesHandedOver ==
  mstage = "optimized" /\ mid_error = "MID_ALL_GOOD" => WellNamed(tree)
-------------------------------------------------------------------------------
LEMMA ToolchainStep ==
  ASSUME AInv, EInv, LInv, TInv, [TNext]_tvars
  PROVE  (AInv /\ EInv /\ LInv /\ TInv)'
<1>1. [ANext]_avars
  BY CompilerSteps
<1>2. AInv'
  BY <1>1, AssemblerConstants, ParseStep, FailStep, EmitStep, EmitDoneStep, FoundStep,
     MissingStep, ArrangeDoneStep, ReduceStep, WriteStep, StutterStep DEF ANext
<1>3. EInv'
  <2>1. ASSUME EnvironmentFails
        PROVE  EInv'
    BY <2>1, GivenUp DEF EnvironmentFails
  <2> QED
    BY <1>1, <2>1, AssemblerConstants, EParseStep, EEmitStep, EEmitDoneStep, EFoundStep,
       EMissingStep, EArrangeDoneStep, EReduceStep, EWriteStep, EStutterStep DEF ANext
<1>4. LInv'
  BY <1>1, AssemblerConstants, LParseStep, LEmitStep, LFoundStep, LReduceStep, LQuietStep DEF ANext
<1>5. TInv'
  BY AssemblerConstants, ExecuteStep, CompileStep, ToolchainStutters DEF TNext
<1> QED
  BY <1>2, <1>3, <1>4, <1>5

LEMMA SettledStep ==
  ASSUME AInv, Settled, [TNext]_tvars
  PROVE  Settled'
<1>1. [ANext]_avars
  BY CompilerSteps
<1>2. CASE ParseHumanCode
  BY <1>2 DEF ParseHumanCode, Settled
<1>3. CASE EmitLine
  <2>1. /\ stage = "emit" /\ stage' \in {"emit", "overrun"}
        /\ jmps' = jmps \/ \E e : jmps' = Append(jmps, e)
    BY <1>3 DEF EmitLine
  <2>2. jmps \in Seq(EntryType) /\ Len(jmps) \in Nat /\ Len(jmps) >= 1
    BY <2>1, AssemblerConstants, Typed DEF AInv, EntryReady
  <2>3. jmps'[1] = jmps[1]
    BY <2>1, <2>2
  <2> QED
    BY <2>1, <2>3 DEF Settled
<1>4. CASE EnvironmentFails \/ EmitDone \/ ArrangeFound \/ ArrangeMissing \/ ArrangeDone
           \/ ReduceBufferSize \/ CreateBin \/ UNCHANGED avars
  <2>1. /\ jmps' = jmps
        /\ stage' \in {"emit", "arrange"} => stage \in {"emit", "arrange"}
        /\ stage' = "done" => bin' = code' \/ (stage = "done" /\ bin' = bin /\ code' = code)
    BY <1>4 DEF EnvironmentFails, EmitDone, ArrangeFound, ArrangeMissing, ArrangeDone,
                ReduceBufferSize, CreateBin, avars
  <2> QED
    BY <2>1 DEF Settled
<1> QED
  BY <1>1, <1>2, <1>3, <1>4 DEF ANext

LEMMA ToolchainAtFirst == TInit => AInv /\ EInv /\ LInv /\ TInv
<1>1. TInit => AInit
  BY DEF TInit
<1>2. AInit => AInv /\ EInv
  BY AssemblerConstants, AtFirst, EAtFirst
<1>3. AInit => LInv
  BY DEF AInit, LInv, LedInv
<1> QED
  BY <1>1, <1>2, <1>3, MachineAtFirst

LEMMA ToolchainAtNext == TInit' => (AInv /\ EInv /\ LInv /\ TInv)'
BY ToolchainAtFirst, PTL

(* assembly() is called with the tree of the midend.                       *)
LEMMA BackendAtFirst ==
  ASSUME OwnNames
  PROVE  Begin(tree) /\ WellNamed(tree) => BInv /\ TypeInv
BY BackendBegins, TypesStart
LEMMA BackendAtNext ==
  ASSUME OwnNames
  PROVE  (Begin(tree) /\ WellNamed(tree))' => (BInv /\ TypeInv)'
BY BackendAtFirst, PTL

(* Once the backend has returned, it does nothing more.                    *)
LEMMA BackendMoves ==
  ASSUME BNext
  PROVE  bstage = "asmbl" /\ (bstage' \in {"asmbl", "undefined"} \/ Assembled)
<1>1. \A types : Visiting(types) => bstage = "asmbl"
  BY DEF Visiting, Now
<1>2. \A what : Now(what) => bstage = "asmbl"
  BY DEF Now
<1>3. ASSUME ScopeStart \/ ScopeEnd \/ Semicolon \/ WriteNum \/ WriteVar \/ WriteOp \/ WriteGetvar
      PROVE  bstage = "asmbl" /\ bstage' = bstage
  BY <1>1, <1>3 DEF ScopeStart, ScopeEnd, Semicolon, WriteNum, WriteVar, WriteOp, WriteGetvar
<1>4. ASSUME WritePutexpr \/ WriteCondExpr \/ WriteWhile \/ WriteIf \/ WriteFunc \/ WriteFuncDecl
             \/ WriteMain \/ WriteReturn
      PROVE  bstage = "asmbl" /\ bstage' = bstage
  BY <1>1, <1>4 DEF WritePutexpr, WriteCondExpr, WriteWhile, WriteIf, WriteFunc, WriteFuncDecl,
                    WriteMain, WriteReturn
<1>5. ASSUME WriteLines \/ WritePopVar \/ WriteCondEnd \/ WriteIfTest \/ WriteIfEnd \/ WriteArgument
             \/ WriteCall \/ WriteParameter \/ WriteBody \/ Leave
      PROVE  bstage = "asmbl" /\ bstage' = bstage
  BY <1>2, <1>5 DEF WriteLines, WritePopVar, WriteCondEnd, WriteIfTest, WriteIfEnd, WriteArgument,
                    WriteCall, WriteParameter, WriteBody, Leave
<1>6. ASSUME UseWithoutTables
      PROVE  bstage = "asmbl" /\ bstage' = "undefined"
  BY <1>1, <1>2, <1>6 DEF UseWithoutTables
<1>7. ASSUME Assembled
      PROVE  bstage = "asmbl"
  BY <1>7 DEF Assembled
<1> QED
  BY <1>3, <1>4, <1>5, <1>6, <1>7 DEF BNext

LEMMA OptimizeChain ==
  ASSUME BackendPart, AssemblerPart, UNCHANGED <<bvars, tvars>>
  PROVE  (BackendPart /\ AssemblerPart)'
<1>1. UNCHANGED bvars /\ UNCHANGED tvars
  OBVIOUS
<1>2. /\ UNCHANGED <<src, stage, line, quiet, code, labels, jmps, jmp, found, error, bin>>
      /\ UNCHANGED <<phase, carriage, user, ret, regs, ram, out>>
      /\ UNCHANGED <<root, work, mngrs, label_ct, asm_file, bstage>>
  BY <1>1 DEF bvars, tvars, avars, machine
<1>3. BackendPart'
  <2>1. bstage # "wait" => (BInv /\ TypeInv)'
    BY <1>1, BackendStep, TypesStay DEF BackendPart
  <2> QED
    BY <1>2, <2>1 DEF BackendPart, Closed
<1>4. AssemblerPart'
  <2>1. stage # "wait" => (AInv /\ EInv /\ LInv /\ TInv)' /\ Settled'
    BY <1>1, ToolchainStep, SettledStep DEF AssemblerPart
  <2>2. stage = "wait" => Rest'
    BY <1>2 DEF AssemblerPart, Rest, Machine!EmptyStack, Machine!Registers, Machine!Addresses
  <2> QED
    BY <1>2, <2>1, <2>2 DEF AssemblerPart
<1> QED
  BY <1>3, <1>4

LEMMA CallAssemblyChain ==
  ASSUME OwnNames, BackendPart, AssemblerPart, NamesHandedOver, CallAssembly
  PROVE  (BackendPart /\ AssemblerPart)'
<1>1. /\ mstage = "optimized" /\ mid_error = "MID_ALL_GOOD" /\ bstage = "wait"
      /\ root' = tree /\ work' = Asmbl(tree) /\ bstage' = "asmbl" /\ tree' = tree
      /\ UNCHANGED <<mngrs, label_ct, asm_file>> /\ UNCHANGED tvars
  BY DEF CallAssembly, midend
<1>2. stage = "wait" /\ mngrs = << NoTables >> /\ label_ct = 0 /\ asm_file = << >>
  BY <1>1 DEF BackendPart
<1>3. Begin(tree)'
  BY <1>1, <1>2 DEF Begin
<1>4. WellNamed(tree)'
  BY <1>1 DEF NamesHandedOver
<1>5. BackendPart'
  BY <1>1, <1>3, <1>4, BackendAtNext DEF BackendPart
<1>6. AssemblerPart'
  BY <1>1, <1>2 DEF AssemblerPart, Rest, tvars, avars, machine, Machine!EmptyStack,
                    Machine!Registers, Machine!Addresses
<1> QED
  BY <1>5, <1>6

LEMMA AssemblyChain ==
  ASSUME BackendPart, AssemblerPart, Assembly
  PROVE  (BackendPart /\ AssemblerPart)'
<1>1. BNext /\ UNCHANGED tvars
  BY DEF Assembly
<1>2. bstage = "asmbl" /\ (bstage' \in {"asmbl", "undefined"} \/ Assembled)
  BY <1>1, BackendMoves
<1>3. stage = "wait" /\ Rest
  BY <1>2 DEF AssemblerPart
<1>4. AssemblerPart'
  BY <1>1, <1>3 DEF AssemblerPart, Rest, tvars, avars, machine, Machine!EmptyStack,
                    Machine!Registers, Machine!Addresses
<1>5. (BInv /\ TypeInv)'
  BY <1>1, <1>2, BackendStep, TypesStay DEF BackendPart
<1>6. bstage' = "written" => Closed'
  <2> SUFFICES ASSUME Assembled PROVE Closed'
    BY <1>2
  <2> DEFINE hlt == NoArg("HLT")
  <2>1. asm_file' = asm_file \o << hlt >>
    BY DEF Assembled, Emit
  <2>2. IsSeq(asm_file)
    BY <1>2 DEF BackendPart, TypeInv, TypeInvWith, Placed
  <2> HIDE DEF hlt
  <2>3. /\ Len(asm_file') = Len(asm_file) + 1 /\ Len(asm_file) \in Nat
        /\ asm_file'[Len(asm_file) + 1] = hlt
    <3>1. IsSeq(<< hlt >>) /\ Len(<< hlt >>) = 1 /\ << hlt >>[1] = hlt
      BY Short
    <3>2. Follow(asm_file, << hlt >>, asm_file')
      BY <2>1, <2>2, <3>1, Joined
    <3> QED
      BY <3>1, <3>2 DEF Follow
  <2>4. asm_file' # << >>
    BY <2>3, Short
  <2> QED
    BY <2>3, <2>4 DEF Closed, hlt
<1>7. bstage' # "wait"
  BY <1>2 DEF Assembled
<1> QED
  BY <1>4, <1>5, <1>6, <1>7 DEF BackendPart

(* The lines that have been written are lines the assembler knows.         *)
LEMMA LinesAreTyped ==
  ASSUME TypeInv
  PROVE  asm_file \in Seq(AsmLine)
<1>1. PICK W : asm_file \in Seq(W)
  BY DEF TypeInv, TypeInvWith, Placed, IsSeq
<1>2. \A i \in 1..Len(asm_file) : asm_file[i] \in AsmLine
  BY DEF TypeInv, TypeInvWith, Placed, GoodLine
<1> QED
  BY <1>1, <1>2

LEMMA OpenAssemblyChain ==
  ASSUME AnyLines, BackendPart, AssemblerPart, OpenAssembly
  PROVE  (BackendPart /\ AssemblerPart)'
<1> DEFINE text == Written(asm_file)
<1>1. /\ bstage = "written" /\ stage = "wait" /\ Rest /\ Closed /\ BInv /\ TypeInv
      /\ UNCHANGED bvars
      /\ UNCHANGED <<line, quiet, code, labels, jmps, jmp, found, error, bin>>
      /\ UNCHANGED <<phase, carriage, user, ret, regs, ram, out>>
  BY DEF OpenAssembly, BackendPart, AssemblerPart, machine
<1>2. asm_file \in Seq(AsmLine) /\ asm_file # << >>
  BY <1>1, LinesAreTyped DEF Closed
<1>3. PointersFit(text) /\ LinesAt(text, ptr_arranger(text)) = asm_file
  BY <1>2, LinesComeBack DEF AnyLines
<1>4. src' = asm_file /\ stage' = "read"
  BY <1>3 DEF OpenAssembly
<1>5. src' \in Sources'
  BY <1>2, <1>4 DEF AnyLines
<1>6. TInit'
  BY <1>1, <1>4, <1>5 DEF TInit, AInit, Rest, Machine!EmptyStack, Machine!Registers, Machine!Addresses
<1>7. (AInv /\ EInv /\ LInv /\ TInv)'
  BY <1>6, ToolchainAtNext
<1>8. UNCHANGED <<root, work, mngrs, label_ct, asm_file, bstage>>
  BY <1>1 DEF bvars
<1>9. BackendPart'
  BY <1>1, <1>8, BackendStep, TypesStay DEF BackendPart, Closed
<1>10. AssemblerPart'
  BY <1>1, <1>4, <1>7, <1>8 DEF AssemblerPart, Settled
<1> QED
  BY <1>9, <1>10

LEMMA CompileChain ==
  ASSUME BackendPart, AssemblerPart, CompileAndExecute
  PROVE  (BackendPart /\ AssemblerPart)'
<1>1. TNext /\ UNCHANGED bvars
  BY DEF CompileAndExecute
<1>2. UNCHANGED <<root, work, mngrs, label_ct, asm_file, bstage>>
  BY <1>1 DEF bvars
<1>3. stage # "wait" /\ stage' # "wait" /\ src' = src
  <2>1. CASE Compile
    BY <2>1 DEF Compile, ANext, ParseHumanCode, EnvironmentFails, EmitLine, EmitDone,
                ArrangeFound, ArrangeMissing, ArrangeDone, ReduceBufferSize, CreateBin
  <2>2. CASE Execute
    BY <2>2 DEF Execute, Compiled
  <2> QED
    BY <1>1, <2>1, <2>2 DEF TNext
<1>4. /\ bstage = "written" /\ src = asm_file /\ AInv /\ EInv /\ LInv /\ TInv /\ Settled
  BY <1>3 DEF AssemblerPart
<1>5. (AInv /\ EInv /\ LInv /\ TInv)' /\ Settled'
  BY <1>1, <1>4, ToolchainStep, SettledStep
<1>6. BackendPart'
  BY <1>1, <1>2, <1>4, BackendStep, TypesStay DEF BackendPart, Closed
<1> QED
  BY <1>2, <1>3, <1>4, <1>5, <1>6 DEF AssemblerPart

LEMMA ChainStep ==
  ASSUME OwnNames, AnyLines, NamesHandedOver, BackendPart, AssemblerPart, [LNext]_lvars
  PROVE  (BackendPart /\ AssemblerPart)'
<1>1. CASE Optimize \/ UNCHANGED lvars
  BY <1>1, OptimizeChain DEF Optimize, lvars
<1> QED
  BY <1>1, CallAssemblyChain, AssemblyChain, OpenAssemblyChain, CompileChain DEF LNext

LEMMA ChainAtFirst == LInit => BackendPart /\ AssemblerPart
BY DEF LInit, BackendPart, AssemblerPart, Rest

LEMMA ChainInvariance ==
  ASSUME OwnNames, AnyLines
  PROVE  LSpec /\ []NamesHandedOver => [](BackendPart /\ AssemblerPart)
<1>1. NamesHandedOver /\ BackendPart /\ AssemblerPart /\ [LNext]_lvars
        => (BackendPart /\ AssemblerPart)'
  BY ChainStep
<1> QED
  BY <1>1, ChainAtFirst, PTL DEF LSpec

(* compile() is given the lines that assembly() has written, all of them   *)
(* and in their order, for programs whose variables, parameters and        *)
(* functions have names and whose numbers are whole: a line of the text    *)
(* is one symbol of it, and no line is an end of line.                     *)
THEOREM LinesAreReadAsWritten ==
  ASSUME OwnNames, AnyLines
  PROVE  LSpec /\ []NamesHandedOver => []EveryLineIsRead
<1>1. AssemblerPart => EveryLineIsRead
  BY DEF AssemblerPart, EveryLineIsRead
<1> QED
  BY <1>1, ChainInvariance, PTL
-------------------------------------------------------------------------------
(* Programs that declare main and all that they call, as BodiesStayOpen    *)
(* and OneLabelForEachJump of module BackendProofs presuppose.             *)
Whole(t) == \E g : Fits(t, g) /\ MainLabel \in g.decls[t]

ProgramsHandedOver ==
  mstage = "optimized" /\ mid_error = "MID_ALL_GOOD" =>
    WellNamed(tree) /\ Whole(tree) /\ Balanced(tree)

Labelled == \E g : Fits(root, g) /\ MainLabel \in g.decls[root] /\ LabelInvWith(g)

LabelledPart == bstage # "wait" => Labelled /\ LevelInv

LEMMA StepOfBackend ==
  ASSUME [LNext]_lvars, ~CallAssembly
  PROVE  [BNext]_bvars /\ (bstage = "wait" => bstage' = "wait")
<1>1. CASE Optimize \/ OpenAssembly \/ CompileAndExecute \/ UNCHANGED lvars
  <2>1. UNCHANGED bvars
    BY <1>1 DEF Optimize, OpenAssembly, CompileAndExecute, lvars
  <2> QED
    BY <2>1 DEF bvars
<1>2. CASE Assembly
  <2>1. BNext
    BY <1>2 DEF Assembly
  <2> QED
    BY <2>1, BackendMoves
<1> QED
  BY <1>1, <1>2 DEF LNext

LEMMA LabelsAtFirst == Begin(tree) /\ Whole(tree) /\ Balanced(tree) => Labelled /\ LevelInv
<1> SUFFICES ASSUME Begin(tree), Whole(tree), Balanced(tree) PROVE Labelled /\ LevelInv
  OBVIOUS
<1>1. PICK g : Fits(tree, g) /\ MainLabel \in g.decls[tree]
  BY DEF Whole
<1>2. root = tree
  BY DEF Begin
<1>3. LabelInvWith(g)
  BY <1>1, LabelsStart
<1> QED
  BY <1>1, <1>2, <1>3, LevelsStart DEF Labelled

LEMMA LabelsAtNext ==
  (Begin(tree) /\ Whole(tree) /\ Balanced(tree))' => (Labelled /\ LevelInv)'
BY LabelsAtFirst, PTL

LEMMA LabelledStep ==
  ASSUME BackendPart, LabelledPart, ProgramsHandedOver, [LNext]_lvars
  PROVE  LabelledPart'
<1>1. CASE CallAssembly
  <2>1. /\ mstage = "optimized" /\ mid_error = "MID_ALL_GOOD" /\ bstage = "wait"
        /\ root' = tree /\ work' = Asmbl(tree) /\ bstage' = "asmbl" /\ tree' = tree
        /\ UNCHANGED <<mngrs, label_ct, asm_file>>
    BY <1>1 DEF CallAssembly, midend
  <2>2. Begin(tree)'
    BY <2>1 DEF Begin, BackendPart
  <2>3. Whole(tree)' /\ Balanced(tree)'
    BY <2>1 DEF ProgramsHandedOver
  <2> QED
    BY <2>2, <2>3, LabelsAtNext DEF LabelledPart
<1>2. CASE ~CallAssembly
  <2>1. [BNext]_bvars /\ (bstage = "wait" => bstage' = "wait")
    BY <1>2, StepOfBackend
  <2>2. ASSUME bstage # "wait"
        PROVE  Labelled'
    <3>1. BInv /\ Labelled
      BY <2>2 DEF BackendPart, LabelledPart
    <3>2. PICK g : Fits(root, g) /\ MainLabel \in g.decls[root] /\ LabelInvWith(g)
      BY <3>1 DEF Labelled
    <3>3. LabelInvWith(g)' /\ root' = root
      BY <2>1, <3>1, <3>2, LabelsStep
    <3> QED
      BY <3>2, <3>3 DEF Labelled
  <2>3. ASSUME bstage # "wait"
        PROVE  LevelInv'
    BY <2>1, <2>3, LevelsStay DEF BackendPart, LabelledPart
  <2> QED
    BY <2>1, <2>2, <2>3 DEF LabelledPart
<1> QED
  BY <1>1, <1>2

LEMMA LabelledInvariance ==
  ASSUME OwnNames, AnyLines
  PROVE  LSpec /\ []ProgramsHandedOver => [](BackendPart /\ AssemblerPart /\ LabelledPart)
<1>1. ProgramsHandedOver => NamesHandedOver
  BY DEF ProgramsHandedOver, NamesHandedOver
<1>2. LInit => LabelledPart
  BY DEF LInit, LabelledPart
<1>3. BackendPart /\ LabelledPart /\ ProgramsHandedOver /\ [LNext]_lvars => LabelledPart'
  BY LabelledStep
<1> QED
  BY <1>1, <1>2, <1>3, ChainInvariance, PTL DEF LSpec
-------------------------------------------------------------------------------
LEMMA MainIsWritten ==
  ASSUME BackendPart, LabelledPart, bstage = "written"
  PROVE  /\ \E m \in 1..Len(asm_file) : asm_file[m].op = "LABEL" /\ asm_file[m].name = MainLabel
         /\ EveryJumpHasOneLabel /\ DOMAIN asm_file = 1..Len(asm_file) /\ Len(asm_file) \in Nat
<1>1. PICK g : Fits(root, g) /\ MainLabel \in g.decls[root] /\ LabelInvWith(g)
  BY DEF LabelledPart, Labelled
<1>2. work = << >> /\ IsSeq(asm_file)
  BY <1>1 DEF LabelInvWith
<1>3. Known(g) = LabelsIn(asm_file)
  BY <1>2, NoneOwed, Short DEF Known
<1>4. MainLabel \in LabelsIn(asm_file)
  BY <1>1, <1>3 DEF LabelInvWith
<1>5. EveryJumpHasOneLabel
  BY <1>1, JumpsLand DEF LabelInv
<1> QED
  BY <1>2, <1>4, <1>5, LabelIn, LenProperties DEF IsSeq

(* The label of every line, and of main, is there.                         *)
LabelsThere ==
  /\ \E m \in 1..Len(src) : src[m].op = "LABEL" /\ src[m].name = MainName
  /\ \A k \in 1..Len(src) : src[k].op \in LabelCommands =>
       \E m \in 1..Len(src) : src[m].op = "LABEL" /\ src[m].name = src[k].name

LEMMA LabelsAreThere ==
  ASSUME MainLabel = MainName, BackendPart, AssemblerPart, LabelledPart, stage # "wait"
  PROVE  LabelsThere
<1>1. bstage = "written" /\ src = asm_file
  BY DEF AssemblerPart
<1>2. /\ \E m \in 1..Len(asm_file) : asm_file[m].op = "LABEL" /\ asm_file[m].name = MainLabel
      /\ EveryJumpHasOneLabel /\ DOMAIN asm_file = 1..Len(asm_file)
  BY <1>1, MainIsWritten
<1> QED
  BY <1>1, <1>2 DEF LabelsThere, EveryJumpHasOneLabel

LEMMA LabelsAreFound ==
  ASSUME AInv, EInv, Settled, LabelsThere, stage = "arrange", WithinLimit, NEW j \in 1..Len(jmps)
  PROVE  Matching(jmps[j].name) # {}
<1> DEFINE name == jmps[j].name
<1>1. /\ line = Len(src) /\ Len(src) \in Nat /\ CYCLE_LIMIT \in Nat
      /\ src \in Seq(LineType) /\ Len(labels) \in Nat /\ Len(labels) <= line
      /\ DOMAIN labels = 1..Len(labels) /\ Len(jmps) \in Nat
      /\ \A k \in 1..Len(src) : src[k].name \in Names
  BY AssemblerConstants, Typed, LenProperties DEF EInv, Emitted, LabelsNoted, LineType
<1>2. PICK m \in 1..Len(src) : src[m].op = "LABEL" /\ src[m].name = name
  <2>1. CASE j = 1
    BY <2>1 DEF Settled, LabelsThere
  <2>2. CASE j # 1
    <3>1. j \in 2..Len(jmps)
      BY <1>1, <2>2
    <3>2. PICK k \in 1..line : src[k].op \in LabelCommands /\ jmps[j] = Entry(src, k)
      BY <3>1 DEF EInv, JumpsNoted
    <3>3. name = src[k].name
      BY <3>2 DEF Entry
    <3> QED
      BY <1>1, <3>2, <3>3 DEF LabelsThere
  <2> QED
    BY <2>1, <2>2
<1> HIDE DEF name
<1>3. PICK b \in 1..Len(labels) : labels[b] = Entry(src, m)
  BY <1>1, <1>2 DEF EInv, LabelsNoted
<1>4. labels[b].name = name
  BY <1>2, <1>3 DEF Entry
<1>5. b <= CYCLE_LIMIT
  BY <1>1 DEF WithinLimit, BufferChunks
<1>6. <<name, name>> \in Prefixes
  BY <1>1, <1>2, AssemblerConstants DEF AssemblerConstants
<1>7. b \in Matching(name)
  BY <1>1, <1>4, <1>5, <1>6 DEF Matching
<1> QED
  BY <1>7 DEF name

(* Only a jump without its label is noted as an error.                     *)
LEMMA ErrorStep ==
  ASSUME AInv, EInv, Settled, LabelsThere, error => ~WithinLimit, [TNext]_tvars
  PROVE  (error => ~WithinLimit)'
<1>1. [ANext]_avars
  BY CompilerSteps
<1>2. src' = src
  BY <1>1 DEF ANext, ParseHumanCode, EnvironmentFails, EmitLine, EmitDone, ArrangeFound, ArrangeMissing,
              ArrangeDone, ReduceBufferSize, CreateBin, avars
<1>3. WithinLimit' = WithinLimit
  BY <1>2 DEF WithinLimit, BufferChunks
<1>4. CASE ArrangeMissing
  <2>1. stage = "arrange" /\ jmp < Len(jmps) /\ Matching(jmps[jmp + 1].name) = {}
    BY <1>4 DEF ArrangeMissing
  <2>2. jmp + 1 \in 1..Len(jmps)
    BY <2>1, AssemblerConstants, Typed
  <2>3. ~WithinLimit
    BY <2>1, <2>2, LabelsAreFound
  <2> QED
    BY <1>3, <2>3
<1>5. CASE ~ArrangeMissing
  <2>1. error' = error
    BY <1>1, <1>5 DEF ANext, ParseHumanCode, EnvironmentFails, EmitLine, EmitDone, ArrangeFound,
                      ArrangeDone, ReduceBufferSize, CreateBin, avars
  <2> QED
    BY <1>3, <2>1
<1> QED
  BY <1>4, <1>5

ErrorPart == stage # "wait" => (error => ~WithinLimit)

LEMMA ErrorChain ==
  ASSUME MainLabel = MainName, BackendPart, AssemblerPart, LabelledPart, ErrorPart, [LNext]_lvars
  PROVE  ErrorPart'
<1>1. CASE UNCHANGED tvars
  BY <1>1 DEF tvars, avars, ErrorPart, WithinLimit, BufferChunks
<1>2. CASE OpenAssembly
  BY <1>2 DEF OpenAssembly, AssemblerPart, Rest, ErrorPart
<1>3. CASE CompileAndExecute
  <2>1. TNext /\ stage # "wait"
    BY <1>3 DEF CompileAndExecute, TNext, Compile, Execute, ANext, ParseHumanCode, EnvironmentFails,
                EmitLine, EmitDone, ArrangeFound, ArrangeMissing, ArrangeDone, ReduceBufferSize,
                CreateBin
  <2>2. LabelsThere /\ AInv /\ EInv /\ Settled
    BY <2>1, LabelsAreThere DEF AssemblerPart
  <2> QED
    BY <2>1, <2>2, ErrorStep DEF ErrorPart
<1> QED
  BY <1>1, <1>2, <1>3 DEF LNext, Optimize, CallAssembly, Assembly, lvars

LEMMA ErrorInvariance ==
  ASSUME OwnNames, AnyLines, MainLabel = MainName
  PROVE  LSpec /\ []ProgramsHandedOver
           => [](BackendPart /\ AssemblerPart /\ LabelledPart /\ ErrorPart)
<1>1. LInit => ErrorPart
  BY DEF LInit, ErrorPart
<1>2. BackendPart /\ AssemblerPart /\ LabelledPart /\ ErrorPart /\ [LNext]_lvars => ErrorPart'
  BY ErrorChain
<1> QED
  BY <1>1, <1>2, LabelledInvariance, PTL DEF LSpec

(* What the backend writes the assembler assembles: it neither writes      *)
(* behind its buffers nor, in a program that no loop is cut short for,     *)
(* misses a label.                                                         *)
CompiledProgramsAssemble == stage # "overrun" /\ (error => ~WithinLimit)

THEOREM BackendSuitsAssembler ==
  ASSUME OwnNames, AnyLines, MainLabel = MainName
  PROVE  LSpec /\ []ProgramsHandedOver => []CompiledProgramsAssemble
<1>1. ASSUME BackendPart, AssemblerPart, LabelledPart, ErrorPart
      PROVE  CompiledProgramsAssemble
  <2>1. CASE stage = "wait"
    BY <1>1, <2>1 DEF AssemblerPart, Rest, CompiledProgramsAssemble
  <2>2. CASE stage # "wait"
    <3>1. LabelsThere /\ AInv
      BY <1>1, <2>2, LabelsAreThere DEF AssemblerPart
    <3>2. DOMAIN src = 1..Len(src)
      BY <3>1, AssemblerConstants, Typed, LenProperties
    <3>3. stage # "overrun"
      BY <3>1, <3>2 DEF LabelsThere, AInv, LabelledProgramFits
    <3> QED
      BY <1>1, <2>2, <3>3 DEF ErrorPart, CompiledProgramsAssemble
  <2> QED
    BY <2>1, <2>2
<1> QED
  BY <1>1, ErrorInvariance, PTL
-------------------------------------------------------------------------------
(* The machine finds an instruction to execute as long as it runs.         *)
LEMMA AllResolved ==
  ASSUME AInv, EInv, LInv, Settled, LabelsThere, stage = "done", WithinLimit
  PROVE  ~UnresolvedJump
<1> SUFFICES ASSUME NEW e \in InstructionStarts, bin[e].cmd \in LabelCommands
             PROVE  bin[e].arg # POISON_JMP_POS
  BY DEF UnresolvedJump
<1>1. Len(bin) \in Nat
  BY LenProperties DEF AInv, AssemblerTypeOK
<1>2. e \in 1..Len(bin)
  BY DEF InstructionStarts
<1>3. CASE e = 1
  BY <1>3 DEF AInv, EntryJumpResolved, Settled
<1>4. CASE e # 1
  <2>1. e > 1
    BY <1>1, <1>2, <1>4
  <2>2. PICK k \in 1..line : src[k].op = bin[e].cmd /\ e = Position(k) + 1
    BY <1>2, <2>1, AssemblerConstants, JumpsAreLines
  <2>3. k \in 1..Len(src) /\ DOMAIN src = 1..Len(src)
    BY AssemblerConstants, Typed, LenProperties
  <2>4. LabelLines(src[k].name) # {}
    BY <2>2, <2>3 DEF LabelsThere, LabelLines
  <2>5. JumpsLead(bin)
    BY DEF EInv, Finished, Complete
  <2> QED
    BY <2>2, <2>3, <2>4, <2>5 DEF JumpsLead
<1> QED
  BY <1>3, <1>4

(* Behind the hlt of the last line there is nothing but the VOID chunk.    *)
LEMMA EndsWithHalt ==
  ASSUME AInv, EInv, LInv, Closed, src = asm_file, stage = "done", WithinLimit
  PROVE  ~EndsInZeroData
<1> DEFINE n == Len(src)
           U == ChunksUpTo(src)
<1>1. /\ src \in Seq(LineType) /\ n \in Nat /\ line \in 0..n /\ Len(bin) \in Nat
      /\ src # << >> /\ src[n] = NoArg("HLT")
  BY AssemblerConstants, Typed, LenProperties DEF Closed, AInv, AssemblerTypeOK
<1>2. n \in 1..n /\ src[n] \in LineType
  <2>1. n >= 1
    BY <1>1, EmptySeq
  <2> QED
    BY <1>1, <2>1, AssemblerConstants, Typed
<1>3. src[n].op = "HLT" /\ Len(ChunksOf(src[n])) = 1 /\ ChunksOf(src[n])[1].cmd = "HLT"
  <2>1. src[n].op = "HLT"
    BY <1>1 DEF NoArg, Asm
  <2> DEFINE only == Chunk(src[n].op, src[n].mode, src[n].arg)
  <2>2. ChunksOf(src[n]) = << only >> /\ only.cmd = "HLT"
    BY <2>1 DEF ChunksOf, LabelCommands, Width, Chunk
  <2> HIDE DEF only
  <2> QED
    BY <2>1, <2>2
<1>4. U[n] = U[n - 1] + 1 /\ U[n - 1] \in Nat /\ U[line] \in Nat /\ U[line] <= U[n]
  <2>1. n - 1 \in 0..n /\ n \in 0..n /\ line \in 0..n /\ line <= n
    BY <1>1, <1>2
  <2> HIDE DEF n
  <2>2. n = Len(src)
    BY DEF n
  <2> QED
    BY <1>1, <1>2, <1>3, <2>1, <2>2, Positions
<1>5. U[n] <= Len(bin) /\ bin[U[n]].cmd = "HLT"
  <2>1. LineAt(bin, src, n)
    BY <1>2 DEF EInv, Finished, Complete
  <2>2. 1 \in 1..Len(ChunksOf(src[n]))
    BY <1>3
  <2> QED
    BY <1>3, <1>4, <2>1, <2>2 DEF LineAt
<1>6. bin[Len(bin)].cmd = "VOID"
  BY DEF EInv, Finished, Complete, VoidChunk, Chunk
<1>7. \A i \in 1..Len(bin) : i > U[line] => bin[i].cmd = "VOID"
  BY DEF LInv, Laid
<1> HIDE DEF U, n
<1> SUFFICES ASSUME NEW i \in InstructionStarts, i = Len(bin) - 1,
                    Width(bin[i].cmd, bin[i].mode) = 2
             PROVE  FALSE
  BY DEF EndsInZeroData
<1>8. i \in 1..Len(bin)
  BY DEF InstructionStarts
<1>9. U[n] # Len(bin)
  BY <1>5, <1>6
<1>10. i = U[n] \/ i > U[line]
  BY <1>1, <1>4, <1>5, <1>8, <1>9
<1>11. bin[i].cmd \in {"HLT", "VOID"}
  BY <1>5, <1>7, <1>8, <1>10
<1> QED
  BY <1>11 DEF Width

(* Whatever jumps, calls, returns and draws the backend wrote: process()   *)
(* never leaves its loop over the end of the code, and so never before a   *)
(* hlt, an unknown command or an empty stack makes it.                     *)
StaysInTheCode ==
  WithinLimit => phase # "ended" /\ (phase = "running" => carriage < Len(bin))

THEOREM CompiledProgramsStay ==
  ASSUME OwnNames, AnyLines, MainLabel = MainName
  PROVE  LSpec /\ []ProgramsHandedOver => []StaysInTheCode
<1>1. ASSUME BackendPart, AssemblerPart, LabelledPart
      PROVE  StaysInTheCode
  <2>1. CASE stage = "wait"
    BY <1>1, <2>1 DEF AssemblerPart, Rest, StaysInTheCode
  <2>2. CASE stage # "wait"
    <3>1. /\ LabelsThere /\ AInv /\ EInv /\ LInv /\ TInv /\ Settled
          /\ Closed /\ src = asm_file
      BY <1>1, <2>2, LabelsAreThere DEF AssemblerPart, BackendPart
    <3>2. CASE stage # "done"
      BY <3>1, <3>2 DEF TInv, StaysInTheCode
    <3>3. CASE stage = "done"
      <4>1. WithinLimit => ~UnresolvedJump /\ ~EndsInZeroData
        BY <3>1, <3>3, AllResolved, EndsWithHalt
      <4>2. Len(bin) \in Nat /\ carriage \in Nat
        BY <3>1, LenProperties DEF AInv, AssemblerTypeOK, TInv
      <4> QED
        BY <3>1, <4>1, <4>2 DEF TInv, StaysInTheCode
    <3> QED
      BY <3>2, <3>3
  <2> QED
    BY <2>1, <2>2
<1> QED
  BY <1>1, LabelledInvariance, PTL
-------------------------------------------------------------------------------
LEMMA QuietBackend ==
  ASSUME mngrs = << NoTables >>, label_ct = 0, asm_file = << >>, bstage = "wait"
  PROVE  BackendTypeOK /\ NoSharedLocation /\ OpenUntilWritten /\ EveryJumpHasOneLabel
<1>1. /\ mngrs # << >> /\ DOMAIN mngrs = 1..1 /\ Len(mngrs) = 1 /\ mngrs[1] = NoTables
      /\ DOMAIN asm_file = {}
  OBVIOUS
<1>2. NoTables.in_func_start = FALSE /\ NoTables.tables = << >>
  BY DEF NoTables, Manager
<1>3. DOMAIN NoTables.tables = {} /\ CellsOf(NoTables.tables) = {}
  <2>1. Len(NoTables.tables) = 0 /\ DOMAIN NoTables.tables = {}
    BY <1>2
  <2> QED
    BY <2>1 DEF CellsOf, CellsUpTo
<1>4. \A m \in DOMAIN mngrs : mngrs[m] = NoTables
  BY <1>1
<1>5. BackendTypeOK
  BY <1>1, <1>2, <1>3, <1>4 DEF BackendTypeOK
<1>6. NoSharedLocation
  BY <1>3, <1>4 DEF NoSharedLocation
<1>7. OpenUntilWritten
  BY <1>1 DEF OpenUntilWritten
<1> QED
  BY <1>5, <1>6, <1>7 DEF EveryJumpHasOneLabel

(* assembly() does what module BackendProofs says of it in the chain, too: *)
(* variables keep apart, bodies stay open and jumps have their labels.     *)
THEOREM BackendWithinTheChain ==
  ASSUME OwnNames, AnyLines
  PROVE  LSpec /\ []ProgramsHandedOver
           => [](BackendTypeOK /\ NoSharedLocation /\ OpenUntilWritten /\ EveryJumpHasOneLabel)
<1>1. ASSUME BackendPart, LabelledPart
      PROVE  BackendTypeOK /\ NoSharedLocation /\ OpenUntilWritten /\ EveryJumpHasOneLabel
  <2>1. CASE bstage = "wait"
    BY <1>1, <2>1, QuietBackend DEF BackendPart
  <2>2. CASE bstage # "wait"
    <3>1. BInv /\ TypeInv /\ Labelled /\ LevelInv
      BY <1>1, <2>2 DEF BackendPart, LabelledPart
    <3>2. OpenUntilWritten
      BY <3>1 DEF LevelInv, LevelInvWith, OpenBodies, OpenUntilWritten
    <3>3. EveryJumpHasOneLabel
      BY <3>1, JumpsLand DEF Labelled, LabelInv
    <3> QED
      BY <3>1, <3>2, <3>3, TypesHold, NumbersApart
  <2> QED
    BY <2>1, <2>2
<1> QED
  BY <1>1, LabelledInvariance, PTL

(* execute() takes no argument for a command in the chain either, whose    *)
(* binaries are those of what the backend has written.                     *)
THEOREM FetchedInTheChain ==
  ASSUME OwnNames, AnyLines
  PROVE  LSpec /\ []NamesHandedOver => []FetchesInstructions
<1>1. ASSUME AssemblerPart
      PROVE  FetchesInstructions
  <2>1. CASE stage = "wait"
    BY <1>1, <2>1 DEF AssemblerPart, Rest, FetchesInstructions, Running
  <2>2. CASE stage # "wait"
    BY <1>1, <2>2, Fetched DEF AssemblerPart
  <2> QED
    BY <2>1, <2>2
<1> QED
  BY <1>1, ChainInvariance, PTL
===============================================================================
