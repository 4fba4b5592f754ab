-------------------------- MODULE AssemblerProofs --------------------------
(***************************************************************************)
(* Theorems about the assembler, for every set of source files, all names  *)
(* of labels and every CYCLE_LIMIT.                                        *)
(***************************************************************************)
EXTENDS Assembler, SequenceLemmas, WellFoundedInduction, TLAPS

-------------------------------------------------------------------------------
(* A set of naturals below n has a greatest element.                       *)
LEMMA GreatestBelow ==
  ASSUME NEW n \in Nat, NEW S, S \subseteq 1..n, S # {}
  PROVE  \E x \in S : \A y \in S : x >= y
<1> DEFINE T == {n - i : i \in S}
<1>1. \A i \in S : i \in 1..n /\ n - i \in Nat
  <2> SUFFICES ASSUME NEW i \in S
               PROVE  i \in 1..n /\ n - i \in Nat
    OBVIOUS
  <2>1. i \in 1..n
    OBVIOUS
  <2> QED
    BY <2>1
<1>2. T \subseteq Nat
  BY <1>1
<1>3. T # {}
  <2>1. PICK i \in S : TRUE
    OBVIOUS
  <2>2. n - i \in T
    OBVIOUS
  <2> QED
    BY <2>2
<1>4. PICK d \in T : \A e \in T : d <= e
  BY <1>2, <1>3, LeastNatural
<1>5. PICK x \in S : d = n - x
  BY <1>4
<1>6. \A y \in S : n - x <= n - y
  BY <1>4, <1>5
<1> QED
  BY <1>1, <1>5, <1>6

LEMMA FirstIsInside ==
  ASSUME NEW S, S \subseteq Nat, S # {}
  PROVE  FirstOf(S) \in S
BY LeastNatural DEF FirstOf

LEMMA LastIsInside ==
  ASSUME NEW n \in Nat, NEW S, S \subseteq 1..n, S # {}
  PROVE  LastOf(S) \in S
BY GreatestBelow DEF LastOf
-------------------------------------------------------------------------------
(* The entry jump is the first of the jumps, and it has been patched, or   *)
(* an error noted, once the search went past it.                           *)
EntryReady ==
  /\ stage \in {"emit", "arrange"} =>
       Len(jmps) >= 1 /\ jmps[1].ip = 0
  /\ stage \in {"emit", "arrange", "reduce"} =>
       Len(code) >= 1 /\ Len(code) < BufferChunks
  /\ stage \in {"write"} => Len(code) >= 1
  /\ stage = "emit" => jmp = 0
  /\ jmp = 0 => ~found
  /\ stage = "arrange" /\ jmp > 0 /\ ~error => code[1].arg # POISON_JMP_POS

(* Every line but a label takes at most two chunks and one jump.           *)
RoomUsed ==
  stage = "emit" =>
    /\ Len(labels) <= line
    /\ Len(code) <= 1 + 2 * (line - Len(labels))
    /\ Len(jmps) <= 1 + (line - Len(labels))
    /\ Len(labels) = 0 => \A i \in 1..line : src[i].op # "LABEL"

AInv ==
  /\ AssemblerTypeOK
  /\ EntryReady
  /\ RoomUsed
  /\ stage = "read" => line = 0 /\ labels = << >> /\ jmp = 0
  /\ LabelledProgramFits
  /\ EntryJumpResolved

LEMMA SourceIsTyped ==
  ASSUME AssemblerConstants, AssemblerTypeOK
  PROVE  /\ src \in Seq(LineType)
         /\ Len(src) \in Nat
         /\ BufferChunks \in Nat
         /\ \A i \in 1..Len(src) : src[i] \in LineType
<1>1. src \in Seq(LineType)
  BY DEF AssemblerConstants, AssemblerTypeOK
<1> QED
  BY <1>1, LenProperties, ElementOfSeq DEF BufferChunks

(* What the WRITE_ macros write.                                           *)
LEMMA ChunksOfLine ==
  ASSUME NEW l \in LineType
  PROVE  /\ ChunksOf(l) \in Seq(ChunkType)
         /\ Len(ChunksOf(l)) \in 0..2
         /\ l.op = "LABEL" => ChunksOf(l) = << >> /\ Len(ChunksOf(l)) = 0
         /\ l.op \in LabelCommands => Len(ChunksOf(l)) = 1
<1>1. CASE l.op \in {"LABEL", "UNKNOWN"}
  BY <1>1 DEF ChunksOf, LabelCommands
<1>2. CASE l.op \in LabelCommands
  <2>1. Chunk(l.op, "NONE", POISON_JMP_POS) \in ChunkType
    BY <1>2 DEF Chunk, ChunkType, Commands, Modes, POISON_JMP_POS, LabelCommands
  <2>2. ChunksOf(l) = << Chunk(l.op, "NONE", POISON_JMP_POS) >> /\ l.op # "LABEL"
    BY <1>2 DEF ChunksOf, LabelCommands
  <2> DEFINE jump == Chunk(l.op, "NONE", POISON_JMP_POS)
  <2> HIDE DEF jump
  <2>3. << jump >> \in Seq(ChunkType) /\ Len(<< jump >>) = 1
    BY <2>1 DEF jump
  <2> QED
    BY <2>2, <2>3 DEF jump
<1>3. CASE l.op \notin {"LABEL", "UNKNOWN"} \cup LabelCommands
  <2>1. /\ Chunk(l.op, l.mode, 0) \in ChunkType
        /\ Chunk(l.op, l.mode, l.arg) \in ChunkType
    BY <1>3 DEF Chunk, ChunkType, LineType
  <2>2. DataChunk(l.arg) \in ChunkType
    BY DEF DataChunk, VoidChunk, Chunk, ChunkType, LineType, Modes, LabelCommands
  <2> DEFINE short == Chunk(l.op, l.mode, l.arg)
             long == Chunk(l.op, l.mode, 0)
             data == DataChunk(l.arg)
  <2>3. ChunksOf(l) = << long, data >> \/ ChunksOf(l) = << short >>
    BY <1>3 DEF ChunksOf
  <2>4. short \in ChunkType /\ long \in ChunkType /\ data \in ChunkType
    BY <2>1, <2>2
  <2> HIDE DEF short, long, data
  <2>5. /\ << short >> \in Seq(ChunkType) /\ Len(<< short >>) = 1
        /\ << long, data >> \in Seq(ChunkType) /\ Len(<< long, data >>) = 2
    BY <2>4
  <2>6. CASE ChunksOf(l) = << long, data >>
    <3>1. ChunksOf(l) \in Seq(ChunkType) /\ Len(ChunksOf(l)) = 2
      BY <2>5, <2>6
    <3> QED
      BY <1>3, <3>1
  <2>7. CASE ChunksOf(l) = << short >>
    <3>1. ChunksOf(l) \in Seq(ChunkType) /\ Len(ChunksOf(l)) = 1
      BY <2>5, <2>7
    <3> QED
      BY <1>3, <3>1
  <2> QED
    BY <2>3, <2>6, <2>7
<1> QED
  BY <1>1, <1>2, <1>3

(* Patching changes no chunk's place, and what it writes is an address.    *)
LEMMA PatchedCode ==
  ASSUME NEW chunks \in Seq(ChunkType), NEW at \in Nat, NEW ip \in Nat
  PROVE  /\ Patched(chunks, at, ip) \in Seq(ChunkType)
         /\ Len(Patched(chunks, at, ip)) = Len(chunks)
         /\ Len(chunks) >= 1 /\ (at = 0 \/ chunks[1].arg # POISON_JMP_POS)
              => Patched(chunks, at, ip)[1].arg # POISON_JMP_POS
<1> DEFINE low == ip % ThreeBytes
<1>1. low \in Nat
  BY DEF ThreeBytes
<1> HIDE DEF low
<1>2. Patched(chunks, at, ip) = [chunks EXCEPT ![at + 1].arg = low]
  BY DEF Patched, low
<1>3. Len(chunks) \in Nat /\ DOMAIN chunks = 1..Len(chunks)
  BY LenProperties
<1>4. CASE at + 1 \notin 1..Len(chunks)
  <2>1. Patched(chunks, at, ip) = chunks
    BY <1>2, <1>3, <1>4
  <2> QED
    BY <1>3, <1>4, <2>1
<1>5. CASE at + 1 \in 1..Len(chunks)
  <2> DEFINE new == [chunks[at + 1] EXCEPT !.arg = low]
  <2>1. chunks[at + 1] \in ChunkType
    BY <1>5, ElementOfSeq
  <2>2. new \in ChunkType /\ new.arg = low
    BY <1>1, <2>1 DEF ChunkType
  <2>3. Patched(chunks, at, ip) = [chunks EXCEPT ![at + 1] = new]
    BY <1>2
  <2> HIDE DEF new
  <2>4. /\ [chunks EXCEPT ![at + 1] = new] \in Seq(ChunkType)
        /\ Len([chunks EXCEPT ![at + 1] = new]) = Len(chunks)
        /\ \A j \in 1..Len(chunks) :
             [chunks EXCEPT ![at + 1] = new][j] = IF j = at + 1 THEN new ELSE chunks[j]
    BY <1>5, <2>2, ExceptSeq
  <2> QED
    BY <1>1, <1>3, <2>2, <2>3, <2>4 DEF POISON_JMP_POS
<1> QED
  BY <1>4, <1>5

(* What reduce_buffer_size keeps begins with the first chunk.              *)
LEMMA KeptCode ==
  ASSUME AssemblerConstants, AssemblerTypeOK,
         Len(code) >= 1, Len(code) < BufferChunks
  PROVE  /\ SubSeq(Buffer, 1, Kept) \in Seq(ChunkType)
         /\ Len(SubSeq(Buffer, 1, Kept)) >= 1
         /\ SubSeq(Buffer, 1, Kept)[1] = code[1]
<1>1. BufferChunks \in Nat /\ code \in Seq(ChunkType) /\ Len(code) \in Nat
  BY SourceIsTyped, LenProperties DEF AssemblerTypeOK
<1>2. VoidChunk \in ChunkType
  BY DEF VoidChunk, Chunk, ChunkType, Modes, LabelCommands
<1>3. \A i \in 1..Len(code) : code[i] \in ChunkType
  BY <1>1, ElementOfSeq
<1>4. Buffer \in [1..BufferChunks -> ChunkType]
  BY <1>1, <1>2, <1>3 DEF Buffer
<1>5. Buffer \in Seq(ChunkType) /\ Len(Buffer) = BufferChunks
  BY <1>1, <1>4, LenProperties, SeqDef
<1>6. Buffer[1] = code[1]
  BY <1>1 DEF Buffer
<1>7. Scanned \in Nat /\ Scanned <= BufferChunks
  BY <1>1 DEF Scanned, AssemblerConstants
<1>8. Kept \in 1..BufferChunks
  <2>1. CASE ZeroRuns(Buffer, Scanned) = {}
    BY <1>1, <2>1 DEF Kept
  <2>2. CASE ZeroRuns(Buffer, Scanned) # {}
    <3>1. ZeroRuns(Buffer, Scanned) \subseteq 1..Scanned
      BY DEF ZeroRuns
    <3>2. LastOf(ZeroRuns(Buffer, Scanned)) \in 1..Scanned
      BY <1>7, <2>2, <3>1, LastIsInside
    <3> QED
      BY <1>1, <1>7, <2>2, <3>2 DEF Kept
  <2> QED
    BY <2>1, <2>2
<1> HIDE DEF Kept, Buffer
<1> QED
  BY <1>1, <1>5, <1>6, <1>8, PrefixOfSeq
-------------------------------------------------------------------------------
LEMMA AtFirst ==
  ASSUME AssemblerConstants, AInit
  PROVE  AInv
<1>1. src \in Seq(LineType)
  BY DEF AssemblerConstants, AInit
<1>2. Len(src) \in Nat
  BY <1>1, LenProperties
<1>3. /\ << >> \in Seq(ChunkType) /\ << >> \in Seq(EntryType) /\ Len(<< >>) = 0
      /\ 0 \in 0..Len(src) /\ 0 \in 0..CYCLE_LIMIT /\ 0 \in 0..0
  BY <1>2, EmptySeq DEF AssemblerConstants
<1>4. AssemblerTypeOK
  BY <1>3 DEF AInit, AssemblerTypeOK, Stages
<1> QED
  BY <1>4 DEF AInit, AInv, EntryReady, RoomUsed, LabelledProgramFits, EntryJumpResolved

LEMMA ParseStep ==
  ASSUME AssemblerConstants, AInv, ParseHumanCode
  PROVE  AInv'
<1> DEFINE jump == Chunk("JMP", "NONE", POISON_JMP_POS)
           entry == [name |-> MainName, ip |-> 0]
<1>1. jump \in ChunkType
  BY DEF Chunk, ChunkType, Commands, Modes, POISON_JMP_POS, LabelCommands
<1>2. entry \in EntryType
  BY DEF EntryType, AssemblerConstants
<1>3. /\ code' = << jump >> /\ jmps' = << entry >>
      /\ stage = "read"
      /\ stage' = IF FitsBuffer(code') /\ FitsTable(jmps') THEN "emit" ELSE "overrun"
      /\ UNCHANGED <<src, line, quiet, labels, jmp, found, error, bin>>
  BY DEF ParseHumanCode
<1>4. entry.ip = 0
  OBVIOUS
<1> HIDE DEF jump, entry
<1>5. /\ << jump >> \in Seq(ChunkType) /\ Len(<< jump >>) = 1
      /\ << entry >> \in Seq(EntryType) /\ Len(<< entry >>) = 1
      /\ << entry >>[1] = entry
  BY <1>1, <1>2
<1>6. /\ AssemblerTypeOK /\ line = 0 /\ labels = << >> /\ jmp = 0 /\ ~found
      /\ Len(labels) = 0
  BY <1>3 DEF AInv, EntryReady
<1>7. stage' \in {"emit", "overrun"} /\ (stage' = "emit" => Len(code') < BufferChunks')
  BY <1>3 DEF FitsBuffer, BufferChunks
<1>8. AssemblerTypeOK'
  BY <1>3, <1>5, <1>6, <1>7 DEF AssemblerTypeOK, Stages, EntryType
<1>9. EntryReady' /\ RoomUsed'
  BY <1>3, <1>4, <1>5, <1>6, <1>7 DEF EntryReady, RoomUsed
<1>10. LabelledProgramFits'
  <2> SUFFICES ASSUME NEW i \in DOMAIN src, src[i].op = "LABEL"
               PROVE  stage' = "emit"
    BY <1>3, <1>7 DEF LabelledProgramFits
  <2>1. Len(src) \in Nat /\ i \in 1..Len(src)
    BY <1>6, SourceIsTyped, LenProperties
  <2> QED
    BY <1>3, <1>5, <2>1 DEF FitsBuffer, FitsTable, BufferChunks
<1> QED
  BY <1>3, <1>7, <1>8, <1>9, <1>10 DEF AInv, EntryJumpResolved

LEMMA TwoMoreChunks ==
  ASSUME NEW lines \in Nat, NEW named \in Nat, NEW used \in Nat, NEW more \in 0..2,
         used <= 1 + 2 * (lines - named)
  PROVE  used + more <= 1 + 2 * (lines + 1 - named)
OBVIOUS

LEMMA EmitStep ==
  ASSUME AssemblerConstants, AInv, EmitLine
  PROVE  AInv'
<1> DEFINE l == src[line + 1]
           chunks == ChunksOf(l)
           label == [name |-> l.name, ip |-> IpPos(code)]
           jump == [name |-> l.name, ip |-> IpPos(code') - 1]
<1>1. /\ AssemblerTypeOK /\ EntryReady /\ RoomUsed
      /\ stage = "emit" /\ line \in Nat /\ line < Len(src)
      /\ Len(src) \in Nat /\ BufferChunks \in Nat
      /\ \A i \in 1..Len(src) : src[i] \in LineType
  BY SourceIsTyped DEF AInv, EmitLine, AssemblerTypeOK
<1>2. l \in LineType
  BY <1>1
<1>3. /\ chunks \in Seq(ChunkType) /\ Len(chunks) \in 0..2
      /\ l.op = "LABEL" => Len(chunks) = 0
      /\ l.op \in LabelCommands => Len(chunks) = 1
      /\ l.name \in Names
  BY <1>2, ChunksOfLine DEF LineType
<1>4. /\ code \in Seq(ChunkType) /\ labels \in Seq(EntryType) /\ jmps \in Seq(EntryType)
      /\ Len(code) \in Nat /\ Len(labels) \in Nat /\ Len(jmps) \in Nat
  BY <1>1, LenProperties DEF AssemblerTypeOK
<1>5. /\ code' = code \o chunks
      /\ labels' = IF l.op = "LABEL" THEN Append(labels, label) ELSE labels
      /\ jmps' = IF l.op \in LabelCommands THEN Append(jmps, jump) ELSE jmps
      /\ quiet' = IF chunks = << >> THEN quiet + 1 ELSE 0
      /\ line' = line + 1
      /\ stage' = IF FitsBuffer(code') /\ FitsTable(jmps') THEN "emit" ELSE "overrun"
      /\ UNCHANGED <<src, jmp, found, error, bin>>
      /\ quiet < CYCLE_LIMIT
  BY DEF EmitLine
<1>6. l.op = "LABEL" => l.op \notin LabelCommands
  BY DEF LabelCommands
<1>7. label \in EntryType
  BY <1>3, <1>4 DEF EntryType, IpPos
<1> HIDE DEF l, chunks, label
<1>8. /\ code' \in Seq(ChunkType) /\ Len(code') = Len(code) + Len(chunks)
  BY <1>3, <1>4, <1>5, ConcatProperties
<1>9. l.op \in LabelCommands => jump \in EntryType
  <2> SUFFICES ASSUME l.op \in LabelCommands
               PROVE  jump \in EntryType
    OBVIOUS
  <2>1. Len(code) \in Nat /\ Len(code') = Len(code) + 1
    BY <1>3, <1>4, <1>8
  <2>2. IpPos(code') - 1 \in Nat
    BY <2>1 DEF IpPos
  <2> QED
    BY <1>3, <2>2 DEF EntryType, jump
<1> HIDE DEF jump
<1>10. /\ labels' \in Seq(EntryType)
       /\ l.op = "LABEL" => Len(labels') = Len(labels) + 1
       /\ l.op # "LABEL" => Len(labels') = Len(labels)
  BY <1>4, <1>5, <1>7, AppendProperties
<1>11. /\ jmps' \in Seq(EntryType)
       /\ l.op \in LabelCommands => Len(jmps') = Len(jmps) + 1
       /\ l.op \notin LabelCommands => Len(jmps') = Len(jmps)
       /\ Len(jmps) >= 1 => jmps'[1] = jmps[1]
  BY <1>4, <1>5, <1>9, AppendProperties
<1>12. stage' \in {"emit", "overrun"} /\ (stage' = "emit" => Len(code') < BufferChunks')
  BY <1>5 DEF FitsBuffer, BufferChunks
<1>13. AssemblerTypeOK'
  <2>1. quiet' \in 0..CYCLE_LIMIT
    BY <1>1, <1>5 DEF AssemblerTypeOK, AssemblerConstants
  <2>2. line' \in 0..Len(src) /\ jmp \in 0..Len(jmps')
    BY <1>1, <1>4, <1>5, <1>11 DEF AssemblerTypeOK
  <2> QED
    BY <1>1, <1>5, <1>8, <1>10, <1>11, <1>12, <2>1, <2>2
    DEF AssemblerTypeOK, Stages, EntryType
<1>14. EntryReady'
  BY <1>1, <1>3, <1>4, <1>5, <1>8, <1>11, <1>12 DEF EntryReady
<1>15. /\ Len(labels') <= line + 1
       /\ Len(code') <= 1 + 2 * (line + 1 - Len(labels'))
       /\ Len(jmps') <= 1 + (line + 1 - Len(labels'))
  <2>1. /\ Len(labels) <= line
        /\ Len(code) <= 1 + 2 * (line - Len(labels))
        /\ Len(jmps) <= 1 + (line - Len(labels))
    BY <1>1 DEF RoomUsed
  <2>2. CASE l.op = "LABEL"
    <3>1. /\ Len(code') = Len(code) /\ Len(jmps') = Len(jmps)
          /\ Len(labels') = Len(labels) + 1
      BY <1>3, <1>4, <1>6, <1>8, <1>10, <1>11, <2>2
    <3> QED
      BY <1>1, <1>4, <2>1, <3>1
  <2>3. CASE l.op # "LABEL"
    <3>1. Len(code) \in Nat /\ Len(jmps) \in Nat /\ Len(chunks) \in 0..2
      BY <1>3, <1>4
    <3>2. Len(code') = Len(code) + Len(chunks)
      BY <1>8
    <3>3. Len(jmps') \in Len(jmps)..(Len(jmps) + 1)
      BY <1>11, <3>1
    <3>4. Len(labels') = Len(labels) /\ Len(labels) \in Nat /\ line \in Nat
      BY <1>1, <1>4, <1>10, <2>3
    <3> HIDE DEF chunks
    <3>5. Len(labels') <= line + 1
      BY <2>1, <3>4
    <3>6. Len(code') <= 1 + 2 * (line + 1 - Len(labels'))
      BY <2>1, <3>1, <3>2, <3>4, TwoMoreChunks
    <3>7. Len(jmps') <= 1 + (line + 1 - Len(labels'))
      BY <2>1, <3>1, <3>3, <3>4
    <3> QED
      BY <3>5, <3>6, <3>7
  <2> QED
    BY <2>2, <2>3
<1>16. Len(labels') = 0 => \A i \in 1..(line + 1) : src[i].op # "LABEL"
  <2> SUFFICES ASSUME Len(labels') = 0, NEW i \in 1..(line + 1)
               PROVE  src[i].op # "LABEL"
    OBVIOUS
  <2>1. l.op # "LABEL" /\ Len(labels) = 0
    <3>1. Len(labels) \in Nat
      BY <1>4
    <3> QED
      BY <1>10, <3>1
  <2>2. CASE i = line + 1
    BY <2>1, <2>2 DEF l
  <2>3. CASE i # line + 1
    <3>1. i \in 1..line
      BY <1>1, <2>3
    <3> QED
      BY <1>1, <2>1, <3>1 DEF RoomUsed
  <2> QED
    BY <2>2, <2>3
<1>17. LabelledProgramFits'
  <2> SUFFICES ASSUME NEW i \in DOMAIN src, src[i].op = "LABEL"
               PROVE  FitsBuffer(code') /\ FitsTable(jmps')
    BY <1>5 DEF LabelledProgramFits
  <2>1. i \in 1..Len(src)
    BY <1>1, SourceIsTyped, LenProperties
  <2>2. Len(labels') >= 1 \/ line + 1 < Len(src)
    BY <1>1, <1>4, <1>10, <1>16, <2>1
  <2>3. Len(code') < 2 * Len(src) /\ Len(jmps') <= Len(src)
    <3>1. Len(labels') \in Nat /\ Len(src) \in Nat /\ line \in Nat /\ line < Len(src)
      BY <1>1, <1>10, LenProperties
    <3>2. Len(code') \in Nat /\ Len(jmps') \in Nat
      BY <1>8, <1>11, LenProperties
    <3> QED
      BY <1>15, <2>2, <3>1, <3>2
  <2> QED
    BY <1>5, <2>3 DEF FitsBuffer, FitsTable, BufferChunks
<1>18. RoomUsed'
  <2>1. line' = line + 1 /\ src' = src
    BY <1>5
  <2>2. Len(labels') = 0 => \A i \in 1..line' : src'[i].op # "LABEL"
    BY <1>16, <2>1
  <2>3. /\ Len(labels') <= line'
        /\ Len(code') <= 1 + 2 * (line' - Len(labels'))
        /\ Len(jmps') <= 1 + (line' - Len(labels'))
    <3>1. line \in Nat /\ Len(labels') \in Nat
      BY <1>1, <1>10, LenProperties
    <3>2. Len(code') \in Nat /\ Len(jmps') \in Nat
      BY <1>8, <1>11, LenProperties
    <3> QED
      BY <1>15, <2>1, <3>1, <3>2
  <2> QED
    BY <2>2, <2>3 DEF RoomUsed
<1> QED
  BY <1>5, <1>12, <1>13, <1>14, <1>17, <1>18 DEF AInv, EntryJumpResolved
-------------------------------------------------------------------------------
LEMMA EmitDoneStep ==
  ASSUME AssemblerConstants, AInv, EmitDone
  PROVE  AInv'
<1>1. /\ stage = "emit" /\ stage' = "arrange" /\ AssemblerTypeOK /\ EntryReady
      /\ UNCHANGED <<src, line, quiet, code, labels, jmps, jmp, found, error, bin>>
  BY DEF EmitDone, AInv
<1>2. AssemblerTypeOK'
  BY <1>1 DEF AssemblerTypeOK, Stages, EntryType
<1>3. EntryReady'
  BY <1>1 DEF EntryReady, BufferChunks
<1> QED
  BY <1>1, <1>2, <1>3 DEF AInv, RoomUsed, LabelledProgramFits, EntryJumpResolved

LEMMA FailStep ==
  ASSUME AssemblerConstants, AInv, EnvironmentFails
  PROVE  AInv'
<1>1. /\ stage' = "failed" /\ AssemblerTypeOK /\ EntryReady
      /\ UNCHANGED <<src, line, quiet, code, labels, jmps, jmp, found, error, bin>>
  BY DEF EnvironmentFails, AInv
<1>2. AssemblerTypeOK'
  BY <1>1 DEF AssemblerTypeOK, Stages, EntryType
<1>3. EntryReady'
  BY <1>1 DEF EntryReady
<1> QED
  BY <1>1, <1>2, <1>3 DEF AInv, RoomUsed, LabelledProgramFits, EntryJumpResolved

(* Patching keeps the entry jump resolved, or resolves it.                 *)
LEMMA FoundStep ==
  ASSUME AssemblerConstants, AInv, ArrangeFound
  PROVE  AInv'
<1> DEFINE here == jmps[jmp + 1]
           there == labels[Chosen(Matching(here.name))].ip
<1>1. /\ stage = "arrange" /\ jmp < Len(jmps)
      /\ Matching(here.name) # {}
      /\ code' = Patched(code, here.ip, there)
      /\ found' = TRUE /\ jmp' = jmp + 1
      /\ UNCHANGED <<src, stage, line, quiet, labels, jmps, error, bin>>
  BY DEF ArrangeFound
<1>2. /\ AssemblerTypeOK /\ EntryReady
      /\ code \in Seq(ChunkType) /\ labels \in Seq(EntryType) /\ jmps \in Seq(EntryType)
      /\ Len(jmps) \in Nat /\ jmp \in 0..Len(jmps)
  BY LenProperties DEF AInv, AssemblerTypeOK
<1>3. jmp + 1 \in 1..Len(jmps)
  BY <1>1, <1>2
<1>4. here \in EntryType
  BY <1>2, <1>3, ElementOfSeq
<1>5. Matching(here.name) \subseteq 1..Len(labels)
  BY <1>2, LenProperties DEF Matching
<1>6. Chosen(Matching(here.name)) \in 1..Len(labels)
  <2>1. Matching(here.name) \subseteq Nat
    BY <1>5
  <2> QED
    BY <1>1, <1>5, <2>1, FirstIsInside DEF Chosen
<1>7. labels[Chosen(Matching(here.name))] \in EntryType
  BY <1>2, <1>6, ElementOfSeq
<1>8. here.ip \in Nat /\ there \in Nat
  BY <1>4, <1>7 DEF EntryType
<1>9. jmp = 0 => here.ip = 0
  BY <1>1, <1>2 DEF EntryReady
<1> HIDE DEF here, there
<1>10. /\ code' \in Seq(ChunkType) /\ Len(code') = Len(code)
       /\ Len(code) >= 1 /\ (here.ip = 0 \/ code[1].arg # POISON_JMP_POS)
            => code'[1].arg # POISON_JMP_POS
  BY <1>1, <1>2, <1>8, PatchedCode
<1>11. jmp' \in 0..Len(jmps) /\ jmp' > 0 /\ jmp' # 0
  BY <1>1, <1>2
<1>12. AssemblerTypeOK'
  BY <1>1, <1>2, <1>10, <1>11 DEF AssemblerTypeOK, EntryType
<1>13. jmp = 0 \/ jmp > 0
  BY <1>2
<1>14. ~error => code'[1].arg # POISON_JMP_POS
  BY <1>1, <1>2, <1>9, <1>10, <1>13 DEF EntryReady
<1>15. EntryReady'
  BY <1>1, <1>2, <1>10, <1>11, <1>14 DEF EntryReady, BufferChunks
<1> QED
  BY <1>1, <1>12, <1>15 DEF AInv, RoomUsed, LabelledProgramFits, EntryJumpResolved

LEMMA MissingStep ==
  ASSUME AssemblerConstants, AInv, ArrangeMissing
  PROVE  AInv'
<1>1. /\ stage = "arrange" /\ jmp < Len(jmps)
      /\ error' = (error \/ ~found)
      /\ jmp' = IF Len(labels) + 1 >= CYCLE_LIMIT THEN Len(jmps) ELSE jmp + 1
      /\ UNCHANGED <<src, stage, line, quiet, code, labels, jmps, found, bin>>
  BY DEF ArrangeMissing, Missed
<1>2. /\ AssemblerTypeOK /\ EntryReady
      /\ Len(jmps) \in Nat /\ jmp \in 0..Len(jmps)
  BY LenProperties DEF AInv, AssemblerTypeOK
<1>3. jmp' \in 0..Len(jmps) /\ jmp' > 0 /\ jmp' # 0
  BY <1>1, <1>2
<1>4. AssemblerTypeOK'
  BY <1>1, <1>2, <1>3 DEF AssemblerTypeOK, EntryType
<1>5. jmp = 0 \/ jmp > 0
  BY <1>2
<1>6. ~error' => code[1].arg # POISON_JMP_POS
  BY <1>1, <1>2, <1>5 DEF EntryReady
<1>7. EntryReady'
  BY <1>1, <1>2, <1>3, <1>6 DEF EntryReady, BufferChunks
<1> QED
  BY <1>1, <1>4, <1>7 DEF AInv, RoomUsed, LabelledProgramFits, EntryJumpResolved

LEMMA ArrangeDoneStep ==
  ASSUME AssemblerConstants, AInv, ArrangeDone
  PROVE  AInv'
<1>1. /\ stage = "arrange" /\ jmp = Len(jmps)
      /\ stage' = IF error THEN "failed" ELSE "reduce"
      /\ AssemblerTypeOK /\ EntryReady /\ LabelledProgramFits
      /\ UNCHANGED <<src, line, quiet, code, labels, jmps, jmp, found, error, bin>>
  BY DEF ArrangeDone, AInv
<1>2. stage' \in {"failed", "reduce"} /\ (stage' = "reduce" => ~error)
  BY <1>1
<1>3. AssemblerTypeOK'
  BY <1>1, <1>2 DEF AssemblerTypeOK, Stages, EntryType
<1>4. EntryReady'
  BY <1>1, <1>2 DEF EntryReady, BufferChunks
<1>5. jmp > 0
  BY <1>1, LenProperties DEF EntryReady, AssemblerTypeOK
<1>6. EntryJumpResolved'
  BY <1>1, <1>2, <1>5 DEF EntryReady, EntryJumpResolved
<1> QED
  BY <1>1, <1>2, <1>3, <1>4, <1>6 DEF AInv, RoomUsed, LabelledProgramFits

LEMMA ReduceStep ==
  ASSUME AssemblerConstants, AInv, ReduceBufferSize
  PROVE  AInv'
<1>1. /\ stage = "reduce" /\ stage' = "write"
      /\ code' = SubSeq(Buffer, 1, Kept)
      /\ AssemblerTypeOK /\ EntryReady /\ EntryJumpResolved
      /\ UNCHANGED <<src, line, quiet, labels, jmps, jmp, found, error, bin>>
  BY DEF ReduceBufferSize, AInv
<1>2. Len(code) >= 1 /\ Len(code) < BufferChunks /\ code[1].arg # POISON_JMP_POS
  BY <1>1 DEF EntryReady, EntryJumpResolved
<1>3. code' \in Seq(ChunkType) /\ Len(code') >= 1 /\ code'[1] = code[1]
  BY <1>1, <1>2, KeptCode
<1>4. AssemblerTypeOK'
  BY <1>1, <1>3 DEF AssemblerTypeOK, Stages, EntryType
<1>5. EntryReady'
  BY <1>1, <1>3 DEF EntryReady
<1>6. EntryJumpResolved'
  BY <1>1, <1>2, <1>3 DEF EntryJumpResolved
<1> QED
  BY <1>1, <1>4, <1>5, <1>6 DEF AInv, RoomUsed, LabelledProgramFits

LEMMA WriteStep ==
  ASSUME AssemblerConstants, AInv, CreateBin
  PROVE  AInv'
<1>1. /\ stage = "write" /\ stage' = "done" /\ bin' = code
      /\ AssemblerTypeOK /\ EntryReady /\ EntryJumpResolved
      /\ UNCHANGED <<src, line, quiet, code, labels, jmps, jmp, found, error>>
  BY DEF CreateBin, AInv
<1>2. AssemblerTypeOK'
  BY <1>1 DEF AssemblerTypeOK, Stages, EntryType
<1>3. EntryReady' /\ EntryJumpResolved'
  BY <1>1 DEF EntryReady, EntryJumpResolved
<1> QED
  BY <1>1, <1>2, <1>3 DEF AInv, RoomUsed, LabelledProgramFits

LEMMA StutterStep ==
  ASSUME AInv, UNCHANGED avars
  PROVE  AInv'
<1>1. /\ AssemblerTypeOK /\ EntryReady /\ RoomUsed
      /\ UNCHANGED <<src, stage, line, quiet, code, labels, jmps, jmp, found, error, bin>>
  BY DEF AInv, avars
<1>2. AssemblerTypeOK'
  BY <1>1 DEF AssemblerTypeOK, Stages, EntryType
<1>3. EntryReady'
  BY <1>1 DEF EntryReady, BufferChunks
<1>4. RoomUsed'
  BY <1>1 DEF RoomUsed
<1> QED
  BY <1>1, <1>2, <1>3, <1>4 DEF AInv, LabelledProgramFits, EntryJumpResolved
-------------------------------------------------------------------------------
LEMMA AssemblerInvariance == ASpec => []AInv
<1>1. AInit => AInv
  BY AtFirst, AssemblerConstants
<1>2. AInv /\ [ANext]_avars => AInv'
  BY AssemblerConstants, ParseStep, FailStep, EmitStep, EmitDoneStep, FoundStep,
     MissingStep, ArrangeDoneStep, ReduceStep, WriteStep, StutterStep DEF ANext
<1> QED
  BY <1>1, <1>2, PTL DEF ASpec

(* Every step of every assembly keeps the assembler's state well typed.    *)
THEOREM AssemblerTypeCorrect == ASpec => []AssemblerTypeOK
<1>1. AInv => AssemblerTypeOK
  BY DEF AInv
<1> QED
  BY <1>1, AssemblerInvariance, PTL

(* No source file with a label overruns the byte code buffer or the table  *)
(* of jumps, which cmds_process sizes by the number of lines alone.        *)
THEOREM BuffersSuffice == ASpec => []LabelledProgramFits
<1>1. AInv => LabelledProgramFits
  BY DEF AInv
<1> QED
  BY <1>1, AssemblerInvariance, PTL

(* No binary is written whose entry jump leads nowhere.                    *)
THEOREM EntryIsResolved == ASpec => []EntryJumpResolved
<1>1. AInv => EntryJumpResolved
  BY DEF AInv
<1> QED
  BY <1>1, AssemblerInvariance, PTL
-------------------------------------------------------------------------------
(* The chunks of line k stand in c where the lines before it end; jumps    *)
(* but for their argument.                                                 *)
LineAt(c, lines, k) ==
  /\ ChunksUpTo(lines)[k] <= Len(c)
  /\ \A i \in 1..Len(ChunksOf(lines[k])) :
       /\ c[ChunksUpTo(lines)[k - 1] + i].cmd = ChunksOf(lines[k])[i].cmd
       /\ c[ChunksUpTo(lines)[k - 1] + i].mode = ChunksOf(lines[k])[i].mode
       /\ lines[k].op \notin LabelCommands
            => c[ChunksUpTo(lines)[k - 1] + i] = ChunksOf(lines[k])[i]

(* The entry of a table for line k.                                        *)
Entry(lines, k) == [name |-> lines[k].name, ip |-> ChunksUpTo(lines)[k - 1]]

(* The lines that have been processed, all of them after the loop, are in  *)
(* the code one behind the other.                                          *)
Emitted ==
  stage \in {"emit", "arrange", "reduce"} =>
    /\ Len(code) = ChunksUpTo(src)[line] /\ code[1].cmd = "JMP"
    /\ \A k \in 1..line : LineAt(code, src, k)
    /\ stage = "emit" => quiet <= line
    /\ stage # "emit" /\ WithinLimit => line = Len(src)

(* The tables hold the labels and the jumps of these lines, the labels in  *)
(* their order.                                                            *)
LabelsNoted ==
  stage \in {"emit", "arrange"} =>
    /\ Len(labels) <= line
    /\ \A j \in 1..Len(labels) : \E m \in 1..line :
         src[m].op = "LABEL" /\ labels[j] = Entry(src, m)
    /\ \A m \in 1..line : src[m].op = "LABEL" =>
         \E j \in 1..Len(labels) : labels[j] = Entry(src, m)
    /\ \A i, j \in 1..Len(labels) : i <= j => labels[i].ip <= labels[j].ip

JumpsNoted ==
  stage \in {"emit", "arrange"} =>
    /\ \A j \in 2..Len(jmps) : \E k \in 1..line :
         src[k].op \in LabelCommands /\ jmps[j] = Entry(src, k)
    /\ \A k \in 1..line : src[k].op \in LabelCommands =>
         \E j \in 2..Len(jmps) : jmps[j] = Entry(src, k)

(* A VOID chunk, the data of a zero, stands behind a command.              *)
VoidsApart(c) == \A i \in 1..Len(c) : c[i].cmd = "VOID" => i > 1 /\ c[i - 1].cmd # "VOID"

(* The jumps the search went past lead to the label chosen for them.       *)
JumpsPatched ==
  stage = "arrange" /\ WithinLimit =>
    \A j \in 2..jmp :
      Matching(jmps[j].name) # {} =>
        code[jmps[j].ip + 1].arg = labels[Chosen(Matching(jmps[j].name))].ip

JumpsLead(c) ==
  \A k \in 1..Len(src) :
    src[k].op \in LabelCommands /\ LabelLines(src[k].name) # {} =>
      /\ c[Position(k) + 1].arg # POISON_JMP_POS
      /\ Unambiguous(src[k].name) =>
           c[Position(k) + 1].arg = Position(FirstOf(LabelLines(src[k].name)))

Complete(c) ==
  /\ \A k \in 1..Len(src) : LineAt(c, src, k)
  /\ JumpsLead(c)
  /\ c # << >> /\ c[Len(c)] = VoidChunk

Finished ==
  WithinLimit =>
    /\ stage = "reduce" => JumpsLead(code)
    /\ stage = "write" => Complete(code)
    /\ stage = "done" => Complete(bin)

EInv ==
  /\ stage = "read" => quiet = 0
  /\ Emitted
  /\ LabelsNoted
  /\ JumpsNoted
  /\ stage \in {"emit", "arrange", "reduce"} => VoidsApart(code)
  /\ JumpsPatched
  /\ Finished
-------------------------------------------------------------------------------
(* Where the lines of a file begin.                                        *)
LEMMA Positions ==
  ASSUME NEW lines \in Seq(LineType)
  PROVE  /\ Len(lines) \in Nat
         /\ \A k \in 1..Len(lines) : lines[k] \in LineType
         /\ ChunksUpTo(lines)[0] = 1
         /\ \A k \in 0..Len(lines) : ChunksUpTo(lines)[k] \in Nat /\ ChunksUpTo(lines)[k] >= 1
         /\ \A k \in 1..Len(lines) :
              ChunksUpTo(lines)[k] = ChunksUpTo(lines)[k - 1] + Len(ChunksOf(lines[k]))
         /\ \A i, j \in 0..Len(lines) : i <= j => ChunksUpTo(lines)[i] <= ChunksUpTo(lines)[j]
<1> DEFINE n == Len(lines)
           U == ChunksUpTo(lines)
           w == [i \in 1..n |-> Len(ChunksOf(lines[i]))]
<1>1. n \in Nat /\ \A k \in 1..n : lines[k] \in LineType
  BY LenProperties, ElementOfSeq
<1>2. \A k \in 1..n : w[k] = Len(ChunksOf(lines[k])) /\ w[k] \in Nat
  BY <1>1, ChunksOfLine
<1>3. PICK f : \A i \in 0..n : f[i] = IF i = 0 THEN 1 ELSE f[i - 1] + w[i]
  <2>1. n \in Nat
    BY <1>1
  <2> HIDE DEF n, w
  <2>2. \E f : AddsUp(f, 1, w, n)
    BY <2>1, SumsExist, Zenon
  <2> QED
    BY <2>2 DEF AddsUp
<1>4. \E g : g = [i \in 0..n |-> IF i = 0 THEN 1 ELSE g[i - 1] + Len(ChunksOf(lines[i]))]
  <2> DEFINE g == [i \in 0..n |-> f[i]]
  <2>1. \A i \in 0..n : g[i] = f[i]
    OBVIOUS
  <2>2. g = [i \in 0..n |-> g[i]]
    OBVIOUS
  <2>3. \A i \in 0..n : i # 0 => i - 1 \in 0..n /\ w[i] = Len(ChunksOf(lines[i]))
    BY <1>1, <1>2
  <2> HIDE DEF g, w
  <2>4. \A i \in 0..n : g[i] = IF i = 0 THEN 1 ELSE g[i - 1] + Len(ChunksOf(lines[i]))
    BY <1>3, <2>1, <2>3
  <2> QED
    BY <2>2, <2>4, Zenon
<1>5. U = [i \in 0..n |-> IF i = 0 THEN 1 ELSE U[i - 1] + Len(ChunksOf(lines[i]))]
  BY <1>4 DEF ChunksUpTo
<1>6. \A i \in 0..n : U[i] = IF i = 0 THEN 1 ELSE U[i - 1] + Len(ChunksOf(lines[i]))
  BY <1>5
<1> HIDE DEF U, n, w
<1> DEFINE good == {k \in Nat : k <= n => U[k] \in Nat /\ U[k] >= 1}
<1>7. 0 \in good
  BY <1>1, <1>6
<1>8. ASSUME NEW k \in Nat, k \in good
      PROVE  k + 1 \in good
  <2> SUFFICES ASSUME k + 1 <= n
               PROVE  U[k + 1] \in Nat /\ U[k + 1] >= 1
    OBVIOUS
  <2>1. k + 1 \in 0..n /\ k + 1 \in 1..n /\ k + 1 # 0 /\ (k + 1) - 1 = k
    BY <1>1
  <2>2. U[k + 1] = U[k] + w[k + 1] /\ w[k + 1] \in Nat
    BY <1>2, <1>6, <2>1
  <2>3. U[k] \in Nat /\ U[k] >= 1
    BY <1>1, <1>8
  <2> QED
    BY <2>2, <2>3
<1> HIDE DEF good
<1>9. Nat \subseteq good
  BY <1>7, <1>8, SetInduction
<1>10. \A k \in 0..n : U[k] \in Nat /\ U[k] >= 1
  BY <1>1, <1>9 DEF good
<1>11. \A k \in 1..n : U[k] = U[k - 1] + w[k] /\ U[k - 1] <= U[k]
  <2> SUFFICES ASSUME NEW k \in 1..n
               PROVE  U[k] = U[k - 1] + w[k] /\ U[k - 1] <= U[k]
    OBVIOUS
  <2>1. k \in 0..n /\ k - 1 \in 0..n /\ k # 0
    BY <1>1
  <2> QED
    BY <1>2, <1>6, <1>10, <2>1
<1>12. \A i, j \in 0..n : i <= j => U[i] <= U[j]
  <2>1. \A i \in 0..n : U[i] \in Int
    BY <1>10
  <2>2. \A i \in 1..n : U[i - 1] <= U[i]
    BY <1>11
  <2>3. n \in Nat
    BY <1>1
  <2> QED
    BY <2>1, <2>2, <2>3, NeverFalling, Zenon
<1>13. U[0] = 1
  BY <1>1, <1>6
<1>14. \A k \in 1..n : U[k] = U[k - 1] + Len(ChunksOf(lines[k]))
  BY <1>2, <1>11
<1> QED
  BY <1>1, <1>10, <1>12, <1>13, <1>14 DEF U, n

(* A line's first chunk is its command, and only that of a jump is one.    *)
LEMMA ShapeOfLine ==
  ASSUME NEW l \in LineType
  PROVE  /\ \A i \in 1..Len(ChunksOf(l)) : ChunksOf(l)[i].cmd = "VOID" => i = 2 /\ ChunksOf(l)[1].cmd # "VOID"
         /\ l.op \in LabelCommands => ChunksOf(l)[1].cmd = l.op /\ ChunksOf(l)[1].arg = POISON_JMP_POS
         /\ l.op \notin LabelCommands =>
              \A i \in 1..Len(ChunksOf(l)) : ChunksOf(l)[i].cmd \notin LabelCommands
<1>1. l.op \in Commands \cup {"LABEL", "UNKNOWN"}
  BY DEF LineType
<1>2. CASE l.op \in {"LABEL", "UNKNOWN"}
  <2>1. ChunksOf(l) = << >> /\ l.op \notin LabelCommands
    BY <1>2 DEF ChunksOf, LabelCommands
  <2> QED
    BY <2>1
<1>3. CASE l.op \in LabelCommands
  <2>1. ChunksOf(l) = << Chunk(l.op, "NONE", POISON_JMP_POS) >> /\ l.op # "VOID"
    BY <1>3 DEF ChunksOf, LabelCommands
  <2> QED
    BY <1>3, <2>1 DEF Chunk
<1>4. CASE l.op \notin {"LABEL", "UNKNOWN"} \cup LabelCommands
  <2>1. l.op # "VOID" /\ l.op \notin LabelCommands
    BY <1>1, <1>4 DEF Commands, PlainCommands, LabelCommands
  <2>2. DataChunk(l.arg).cmd \in {"VOID", "DATA"}
    BY DEF DataChunk, VoidChunk, Chunk
  <2>3. CASE Width(l.op, l.mode) = 2
    <3>1. ChunksOf(l) = << Chunk(l.op, l.mode, 0), DataChunk(l.arg) >>
      BY <1>4, <2>3 DEF ChunksOf
    <3> DEFINE first == Chunk(l.op, l.mode, 0)
               data == DataChunk(l.arg)
    <3>2. first.cmd = l.op /\ data.cmd \in {"VOID", "DATA"} /\ ChunksOf(l) = << first, data >>
      BY <2>2, <3>1 DEF Chunk
    <3> HIDE DEF first, data
    <3>3. /\ ChunksOf(l)[1].cmd = l.op /\ ChunksOf(l)[2].cmd \in {"VOID", "DATA"}
          /\ Len(ChunksOf(l)) = 2
      BY <3>2
    <3>4. "VOID" \notin LabelCommands /\ "DATA" \notin LabelCommands
      BY DEF LabelCommands
    <3> QED
      BY <2>1, <3>3, <3>4
  <2>4. CASE Width(l.op, l.mode) # 2
    <3>1. ChunksOf(l) = << Chunk(l.op, l.mode, l.arg) >>
      BY <1>4, <2>4 DEF ChunksOf
    <3> QED
      BY <2>1, <3>1 DEF Chunk
  <2> QED
    BY <2>3, <2>4
<1> QED
  BY <1>2, <1>3, <1>4

LEMMA FirstIsLeast ==
  ASSUME NEW S, S \subseteq Nat, S # {}
  PROVE  FirstOf(S) \in S /\ \A i \in S : FirstOf(S) <= i
BY LeastNatural DEF FirstOf

LEMMA LastIsGreatest ==
  ASSUME NEW n \in Nat, NEW S, S \subseteq 1..n, S # {}
  PROVE  LastOf(S) \in S /\ \A i \in S : LastOf(S) >= i
BY GreatestBelow DEF LastOf

(* Writing behind what is there leaves the lines where they are.           *)
LEMMA LineKept ==
  ASSUME NEW lines \in Seq(LineType), NEW k \in 1..Len(lines), NEW c, NEW d,
         LineAt(c, lines, k), Len(c) \in Nat, Len(d) \in Nat, Len(c) <= Len(d),
         \A i \in 1..Len(c) : d[i] = c[i]
  PROVE  LineAt(d, lines, k)
<1> DEFINE U == ChunksUpTo(lines)
<1>1. /\ U[k] = U[k - 1] + Len(ChunksOf(lines[k]))
      /\ U[k] \in Nat /\ U[k - 1] \in Nat
      /\ Len(ChunksOf(lines[k])) \in Nat
  <2>1. k - 1 \in 0..Len(lines) /\ k \in 0..Len(lines) /\ lines[k] \in LineType
    BY Positions
  <2>2. Len(ChunksOf(lines[k])) \in Nat
    BY <2>1, ChunksOfLine
  <2> QED
    BY <2>1, <2>2, Positions
<1>2. U[k] <= Len(c)
  BY DEF LineAt
<1> HIDE DEF U
<1>3. \A i \in 1..Len(ChunksOf(lines[k])) : d[U[k - 1] + i] = c[U[k - 1] + i]
  <2>1. \A i \in 1..Len(ChunksOf(lines[k])) : U[k - 1] + i \in 1..Len(c)
    BY <1>1, <1>2
  <2> QED
    BY <2>1
<1>4. U[k] <= Len(d)
  BY <1>1, <1>2
<1> QED
  BY <1>3, <1>4 DEF LineAt, U

(* Patching changes the argument of one chunk.                             *)
LEMMA PatchedOne ==
  ASSUME NEW c \in Seq(ChunkType), NEW at \in Nat, NEW ip \in Nat
  PROVE  /\ Patched(c, at, ip) \in Seq(ChunkType)
         /\ Len(Patched(c, at, ip)) = Len(c)
         /\ \A i \in 1..Len(c) :
              /\ Patched(c, at, ip)[i].cmd = c[i].cmd
              /\ Patched(c, at, ip)[i].mode = c[i].mode
              /\ i # at + 1 => Patched(c, at, ip)[i] = c[i]
              /\ i = at + 1 => Patched(c, at, ip)[i].arg = ip % ThreeBytes
<1> DEFINE low == ip % ThreeBytes
           d == Patched(c, at, ip)
<1>1. d \in Seq(ChunkType) /\ Len(d) = Len(c)
  BY PatchedCode
<1> HIDE DEF low
<1>2. d = [c EXCEPT ![at + 1].arg = low]
  BY DEF Patched, low
<1>3. DOMAIN c = 1..Len(c) /\ \A i \in 1..Len(c) : c[i] \in ChunkType
  BY LenProperties, ElementOfSeq
<1>4. \A i \in 1..Len(c) : d[i] = IF i = at + 1 THEN [c[i] EXCEPT !.arg = low] ELSE c[i]
  BY <1>2, <1>3
<1> HIDE DEF d
<1>5. \A i \in 1..Len(c) :
        /\ [c[i] EXCEPT !.arg = low].cmd = c[i].cmd
        /\ [c[i] EXCEPT !.arg = low].mode = c[i].mode
        /\ [c[i] EXCEPT !.arg = low].arg = low
  BY <1>3 DEF ChunkType
<1> QED
  BY <1>1, <1>4, <1>5 DEF low, d

(* Patching a jump leaves the lines where they are, too.                   *)
LEMMA LinePatched ==
  ASSUME NEW lines \in Seq(LineType), NEW k \in 1..Len(lines),
         NEW c \in Seq(ChunkType), NEW at \in Nat, NEW ip \in Nat,
         LineAt(c, lines, k), c[at + 1].cmd \in LabelCommands
  PROVE  LineAt(Patched(c, at, ip), lines, k)
<1> DEFINE U == ChunksUpTo(lines)
           d == Patched(c, at, ip)
<1>1. /\ U[k] = U[k - 1] + Len(ChunksOf(lines[k]))
      /\ U[k] \in Nat /\ U[k - 1] \in Nat
      /\ Len(ChunksOf(lines[k])) \in Nat
      /\ lines[k] \in LineType
  <2>1. k - 1 \in 0..Len(lines) /\ k \in 0..Len(lines) /\ lines[k] \in LineType
    BY Positions
  <2>2. Len(ChunksOf(lines[k])) \in Nat
    BY <2>1, ChunksOfLine
  <2> QED
    BY <2>1, <2>2, Positions
<1>2. U[k] <= Len(c) /\ Len(c) \in Nat
  BY LenProperties DEF LineAt
<1>3. /\ Len(d) = Len(c)
      /\ \A i \in 1..Len(c) : /\ d[i].cmd = c[i].cmd /\ d[i].mode = c[i].mode
                              /\ i # at + 1 => d[i] = c[i]
  BY PatchedOne
<1> HIDE DEF U, d
<1>4. \A i \in 1..Len(ChunksOf(lines[k])) : U[k - 1] + i \in 1..Len(c)
  BY <1>1, <1>2
<1>5. \A i \in 1..Len(ChunksOf(lines[k])) :
        /\ c[U[k - 1] + i].cmd = ChunksOf(lines[k])[i].cmd
        /\ c[U[k - 1] + i].mode = ChunksOf(lines[k])[i].mode
        /\ lines[k].op \notin LabelCommands => c[U[k - 1] + i] = ChunksOf(lines[k])[i]
  BY DEF LineAt, U
<1>6. lines[k].op \notin LabelCommands =>
        \A i \in 1..Len(ChunksOf(lines[k])) : U[k - 1] + i # at + 1
  BY <1>1, <1>5, ShapeOfLine, SMTT(30)
<1>7. ASSUME NEW i \in 1..Len(ChunksOf(lines[k]))
      PROVE  /\ d[U[k - 1] + i].cmd = ChunksOf(lines[k])[i].cmd
             /\ d[U[k - 1] + i].mode = ChunksOf(lines[k])[i].mode
             /\ lines[k].op \notin LabelCommands => d[U[k - 1] + i] = ChunksOf(lines[k])[i]
  <2> DEFINE m == U[k - 1] + i
  <2>1. m \in 1..Len(c)
    BY <1>4
  <2>2. /\ c[m].cmd = ChunksOf(lines[k])[i].cmd
        /\ c[m].mode = ChunksOf(lines[k])[i].mode
        /\ lines[k].op \notin LabelCommands => c[m] = ChunksOf(lines[k])[i] /\ m # at + 1
    BY <1>5, <1>6
  <2> HIDE DEF m
  <2>3. /\ d[m].cmd = ChunksOf(lines[k])[i].cmd
        /\ d[m].mode = ChunksOf(lines[k])[i].mode
        /\ lines[k].op \notin LabelCommands => d[m] = ChunksOf(lines[k])[i]
    BY <1>3, <2>1, <2>2
  <2> QED
    BY <2>3 DEF m
<1>8. U[k] <= Len(d)
  BY <1>2, <1>3
<1> QED
  BY <1>7, <1>8 DEF LineAt, U, d
-------------------------------------------------------------------------------
(* The types the steps use again and again.                                *)
LEMMA Typed ==
  ASSUME AssemblerConstants, AInv
  PROVE  /\ src \in Seq(LineType) /\ Len(src) \in Nat
         /\ \A i \in 1..Len(src) : src[i] \in LineType
         /\ code \in Seq(ChunkType) /\ Len(code) \in Nat
         /\ labels \in Seq(EntryType) /\ Len(labels) \in Nat
         /\ jmps \in Seq(EntryType) /\ Len(jmps) \in Nat
         /\ line \in 0..Len(src) /\ line \in Nat /\ jmp \in 0..Len(jmps)
         /\ quiet \in Nat /\ CYCLE_LIMIT \in Nat
BY SourceIsTyped, LenProperties DEF AInv, AssemblerTypeOK, AssemblerConstants

(* Where nothing is claimed any more.                                      *)
LEMMA GivenUp ==
  ASSUME stage' \in {"failed", "overrun"}
  PROVE  EInv'
BY DEF EInv, Emitted, LabelsNoted, JumpsNoted, JumpsPatched, Finished

LEMMA EAtFirst ==
  ASSUME AInit
  PROVE  EInv
BY DEF AInit, EInv, Emitted, LabelsNoted, JumpsNoted, JumpsPatched, Finished

LEMMA EParseStep ==
  ASSUME AssemblerConstants, AInv, EInv, ParseHumanCode
  PROVE  EInv'
<1> DEFINE first == Chunk("JMP", "NONE", POISON_JMP_POS)
           entry == [name |-> MainName, ip |-> 0]
<1>1. /\ stage = "read" /\ code' = << first >> /\ jmps' = << entry >>
      /\ stage' \in {"emit", "overrun"}
      /\ UNCHANGED <<src, line, quiet, labels, jmp, found, error, bin>>
  BY DEF ParseHumanCode
<1>2. line = 0 /\ labels = << >> /\ Len(labels) = 0 /\ quiet = 0
  BY <1>1 DEF AInv, EInv
<1>3. ChunksUpTo(src)[0] = 1
  BY Typed, Positions
<1>4. first.cmd = "JMP"
  BY DEF Chunk
<1> HIDE DEF first, entry
<1>5. Len(code') = 1 /\ code'[1] = first /\ Len(jmps') = 1
  BY <1>1
<1>6. CASE stage' = "emit"
  <2>1. line' = 0 /\ quiet' = 0 /\ Len(labels') = 0 /\ src' = src
    BY <1>1, <1>2
  <2>2. Emitted'
    BY <1>3, <1>4, <1>5, <1>6, <2>1 DEF Emitted
  <2>3. LabelsNoted' /\ JumpsNoted'
    BY <1>5, <2>1 DEF LabelsNoted, JumpsNoted
  <2>4. VoidsApart(code')
    BY <1>4, <1>5 DEF VoidsApart
  <2>5. JumpsPatched' /\ Finished'
    BY <1>6 DEF JumpsPatched, Finished
  <2> QED
    BY <1>6, <2>2, <2>3, <2>4, <2>5 DEF EInv
<1> QED
  BY <1>1, <1>6, GivenUp

LEMMA EEmitStep ==
  ASSUME AssemblerConstants, AInv, EInv, EmitLine
  PROVE  EInv'
<1> DEFINE l == src[line + 1]
           chunks == ChunksOf(l)
           U == ChunksUpTo(src)
           label == [name |-> l.name, ip |-> IpPos(code)]
           jump == [name |-> l.name, ip |-> IpPos(code') - 1]
<1>1. /\ stage = "emit" /\ line \in Nat /\ line < Len(src) /\ Len(src) \in Nat
      /\ code \in Seq(ChunkType) /\ Len(code) \in Nat /\ quiet \in Nat
      /\ labels \in Seq(EntryType) /\ Len(labels) \in Nat
      /\ jmps \in Seq(EntryType) /\ Len(jmps) \in Nat
      /\ src \in Seq(LineType) /\ l \in LineType
  BY Typed DEF EmitLine
<1>2. /\ code' = code \o chunks
      /\ labels' = IF l.op = "LABEL" THEN Append(labels, label) ELSE labels
      /\ jmps' = IF l.op \in LabelCommands THEN Append(jmps, jump) ELSE jmps
      /\ quiet' = IF chunks = << >> THEN quiet + 1 ELSE 0
      /\ line' = line + 1 /\ src' = src
      /\ stage' \in {"emit", "overrun"}
  BY DEF EmitLine
<1>3. /\ chunks \in Seq(ChunkType) /\ Len(chunks) \in 0..2 /\ Len(chunks) \in Nat
      /\ l.op \in LabelCommands => Len(chunks) = 1
      /\ l.name \in Names
  BY <1>1, ChunksOfLine DEF LineType
<1>4. line + 1 \in 1..Len(src) /\ (line + 1) - 1 = line /\ line \in 0..Len(src)
  BY <1>1
<1>5. /\ U[line + 1] = U[line] + Len(chunks)
      /\ U[line] \in Nat /\ U[line + 1] \in Nat
      /\ \A m \in 1..line : U[m - 1] \in Nat /\ U[m - 1] <= U[line]
  <2>1. \A m \in 1..line : m - 1 \in 0..Len(src) /\ m - 1 <= line
    BY <1>4
  <2> QED
    BY <1>1, <1>4, <2>1, Positions, SMTT(30)
<1>6. /\ Len(code) = U[line] /\ code[1].cmd = "JMP"
      /\ \A k \in 1..line : LineAt(code, src, k)
      /\ quiet <= line
  BY <1>1 DEF EInv, Emitted
<1>7. Len(code) >= 1
  BY <1>1, Positions, <1>4, <1>6
<1> HIDE DEF l, chunks, U
<1>8. /\ code' \in Seq(ChunkType) /\ Len(code') = Len(code) + Len(chunks)
      /\ \A i \in 1..Len(code) : code'[i] = code[i]
      /\ \A i \in 1..Len(chunks) : code'[Len(code) + i] = chunks[i]
  <2>1. /\ code' \in Seq(ChunkType) /\ Len(code') = Len(code) + Len(chunks)
        /\ \A i \in 1..(Len(code) + Len(chunks)) :
             code'[i] = IF i <= Len(code) THEN code[i] ELSE chunks[i - Len(code)]
    BY <1>1, <1>2, <1>3, ConcatProperties
  <2>2. ASSUME NEW i \in 1..Len(chunks)
        PROVE  code'[Len(code) + i] = chunks[i]
    <3>1. /\ Len(code) + i \in 1..(Len(code) + Len(chunks))
          /\ ~ (Len(code) + i <= Len(code)) /\ (Len(code) + i) - Len(code) = i
      BY <1>1, <1>3
    <3> QED
      BY <2>1, <3>1
  <2> QED
    BY <1>1, <1>3, <2>1, <2>2
<1>9. ASSUME NEW k \in 1..(line + 1)
      PROVE  LineAt(code', src, k)
  <2>1. CASE k \in 1..line
    <3>1. k \in 1..Len(src) /\ Len(code) <= Len(code') /\ Len(code') \in Nat
      BY <1>1, <1>3, <1>8, <2>1
    <3> QED
      BY <1>1, <1>6, <1>8, <2>1, <3>1, LineKept
  <2>2. CASE k = line + 1
    <3>1. chunks = ChunksOf(src[k]) /\ U[k - 1] = Len(code) /\ U[k] = Len(code')
      BY <1>4, <1>5, <1>6, <1>8, <2>2 DEF chunks, l
    <3>2. Len(code') \in Nat
      BY <1>1, <1>3, <1>8
    <3> QED
      BY <1>8, <3>1, <3>2 DEF LineAt, U
  <2> QED
    BY <1>1, <2>1, <2>2
<1>10. \A k \in 1..line : k \in 1..Len(src) /\ k \in 1..(line + 1)
  BY <1>1
<1>11. Emitted'
  <2>1. Len(code') = U[line + 1]
    BY <1>5, <1>6, <1>8
  <2>2. code'[1].cmd = "JMP"
    BY <1>6, <1>7, <1>8, <1>1
  <2>3. quiet' <= line + 1
    BY <1>1, <1>2, <1>6
  <2> QED
    BY <1>2, <1>9, <2>1, <2>2, <2>3 DEF Emitted, U
<1>12. label = Entry(src, line + 1)
  BY <1>4, <1>6 DEF Entry, IpPos, U, l
<1>13. l.op \in LabelCommands => jump = Entry(src, line + 1)
  <2>1. l.op \in LabelCommands => Len(code') = U[line] + 1
    BY <1>3, <1>6, <1>8
  <2>2. l.op \in LabelCommands => Len(code') - 1 = U[line]
    BY <1>5, <2>1
  <2>3. l.op \in LabelCommands => IpPos(code') - 1 = U[(line + 1) - 1]
    BY <1>4, <2>2 DEF IpPos
  <2> QED
    BY <2>3 DEF Entry, U, l
<1>14. label \in EntryType /\ (l.op \in LabelCommands => jump \in EntryType)
  BY <1>3, <1>4, <1>5, <1>12, <1>13 DEF EntryType, Entry, U, l
<1> HIDE DEF label, jump
<1>15. ASSUME stage' = "emit" PROVE LabelsNoted'
  <2>1. /\ Len(labels) <= line
        /\ \A j \in 1..Len(labels) : \E m \in 1..line :
             src[m].op = "LABEL" /\ labels[j] = Entry(src, m)
        /\ \A m \in 1..line : src[m].op = "LABEL" =>
             \E j \in 1..Len(labels) : labels[j] = Entry(src, m)
        /\ \A i, j \in 1..Len(labels) : i <= j => labels[i].ip <= labels[j].ip
    BY <1>1 DEF EInv, LabelsNoted
  <2>2. CASE l.op # "LABEL"
    <3>1. labels' = labels /\ Len(labels) <= line + 1
      BY <1>1, <1>2, <2>1, <2>2
    <3>2. \A j \in 1..Len(labels) : \E m \in 1..(line + 1) :
             src[m].op = "LABEL" /\ labels[j] = Entry(src, m)
      BY <1>10, <2>1
    <3>3. \A m \in 1..(line + 1) : src[m].op = "LABEL" => m \in 1..line
      BY <1>1, <2>2 DEF l
    <3> QED
      BY <1>2, <2>1, <3>1, <3>2, <3>3 DEF LabelsNoted
  <2>3. CASE l.op = "LABEL"
    <3>1. /\ Len(labels') = Len(labels) + 1
          /\ \A j \in 1..Len(labels) : labels'[j] = labels[j]
          /\ labels'[Len(labels) + 1] = Entry(src, line + 1)
      BY <1>1, <1>2, <1>12, <1>14, <2>3, AppendProperties
    <3>2. ASSUME NEW j \in 1..Len(labels')
          PROVE  \E m \in 1..(line + 1) : src[m].op = "LABEL" /\ labels'[j] = Entry(src, m)
      <4>1. CASE j \in 1..Len(labels)
        BY <1>10, <2>1, <3>1, <4>1
      <4>2. CASE j = Len(labels) + 1
        BY <1>1, <2>3, <3>1, <4>2 DEF l
      <4> QED
        BY <1>1, <3>1, <4>1, <4>2
    <3>3. ASSUME NEW m \in 1..(line + 1), src[m].op = "LABEL"
          PROVE  \E j \in 1..Len(labels') : labels'[j] = Entry(src, m)
      <4>0. \A j \in 1..Len(labels) : j \in 1..Len(labels')
        BY <1>1, <3>1
      <4>1. CASE m \in 1..line
        BY <2>1, <3>1, <3>3, <4>0, <4>1
      <4>2. CASE m = line + 1
        <5>1. Len(labels) + 1 \in 1..Len(labels')
          BY <1>1, <3>1
        <5> QED
          BY <3>1, <4>2, <5>1
      <4> QED
        BY <1>1, <4>1, <4>2
    <3>4. \A j \in 1..Len(labels) : labels[j].ip \in Nat /\ labels[j].ip <= U[line]
      <4>1. \A m \in 1..line : Entry(src, m).ip = U[m - 1]
        BY DEF Entry, U
      <4> QED
        BY <1>5, <2>1, <4>1
    <3>5. Entry(src, line + 1).ip = U[line]
      BY <1>4 DEF Entry, U
    <3>6. ASSUME NEW i \in 1..Len(labels'), NEW j \in 1..Len(labels'), i <= j
          PROVE  labels'[i].ip <= labels'[j].ip
      <4>1. CASE j \in 1..Len(labels)
        <5>1. i \in 1..Len(labels)
          BY <1>1, <3>1, <3>6, <4>1
        <5> QED
          BY <2>1, <3>1, <3>6, <4>1, <5>1
      <4>2. CASE j = Len(labels) + 1 /\ i \in 1..Len(labels)
        BY <3>1, <3>4, <3>5, <4>2
      <4>3. CASE j = Len(labels) + 1 /\ i = Len(labels) + 1
        BY <1>5, <3>1, <3>5, <4>3
      <4> QED
        BY <1>1, <3>1, <4>1, <4>2, <4>3
    <3>7. Len(labels') <= line + 1
      BY <1>1, <2>1, <3>1
    <3> QED
      BY <1>2, <3>2, <3>3, <3>6, <3>7 DEF LabelsNoted
  <2> QED
    BY <2>2, <2>3
<1>16. ASSUME stage' = "emit" PROVE JumpsNoted'
  <2>1. /\ \A j \in 2..Len(jmps) : \E k \in 1..line :
             src[k].op \in LabelCommands /\ jmps[j] = Entry(src, k)
        /\ \A k \in 1..line : src[k].op \in LabelCommands =>
             \E j \in 2..Len(jmps) : jmps[j] = Entry(src, k)
        /\ Len(jmps) >= 1
    BY <1>1 DEF EInv, JumpsNoted, AInv, EntryReady
  <2>2. CASE l.op \notin LabelCommands
    <3>1. jmps' = jmps
      BY <1>2, <2>2
    <3>2. \A j \in 2..Len(jmps) : \E k \in 1..(line + 1) :
             src[k].op \in LabelCommands /\ jmps[j] = Entry(src, k)
      BY <1>10, <2>1
    <3>3. \A k \in 1..(line + 1) : src[k].op \in LabelCommands => k \in 1..line
      BY <1>1, <2>2 DEF l
    <3> QED
      BY <1>2, <2>1, <3>1, <3>2, <3>3 DEF JumpsNoted
  <2>3. CASE l.op \in LabelCommands
    <3>1. /\ Len(jmps') = Len(jmps) + 1
          /\ \A j \in 1..Len(jmps) : jmps'[j] = jmps[j]
          /\ jmps'[Len(jmps) + 1] = Entry(src, line + 1)
      BY <1>1, <1>2, <1>13, <1>14, <2>3, AppendProperties
    <3>2. ASSUME NEW j \in 2..Len(jmps')
          PROVE  \E k \in 1..(line + 1) : src[k].op \in LabelCommands /\ jmps'[j] = Entry(src, k)
      <4>1. CASE j \in 2..Len(jmps)
        <5>1. j \in 1..Len(jmps)
          BY <1>1, <4>1
        <5> QED
          BY <1>10, <2>1, <3>1, <4>1, <5>1
      <4>2. CASE j = Len(jmps) + 1
        <5>1. line + 1 \in 1..(line + 1) /\ src[line + 1].op \in LabelCommands
          BY <1>1, <2>3 DEF l
        <5>2. jmps'[j] = Entry(src, line + 1)
          BY <3>1, <4>2
        <5> QED
          BY <5>1, <5>2
      <4> QED
        BY <1>1, <3>1, <4>1, <4>2
    <3>3. ASSUME NEW k \in 1..(line + 1), src[k].op \in LabelCommands
          PROVE  \E j \in 2..Len(jmps') : jmps'[j] = Entry(src, k)
      <4>0. \A j \in 2..Len(jmps) : j \in 2..Len(jmps') /\ j \in 1..Len(jmps)
        BY <1>1, <3>1
      <4>1. CASE k \in 1..line
        BY <2>1, <3>1, <3>3, <4>0, <4>1
      <4>2. CASE k = line + 1
        <5>1. Len(jmps) + 1 \in 2..Len(jmps')
          BY <1>1, <2>1, <3>1
        <5> QED
          BY <3>1, <4>2, <5>1
      <4> QED
        BY <1>1, <4>1, <4>2
    <3> QED
      BY <1>2, <3>2, <3>3 DEF JumpsNoted
  <2> QED
    BY <2>2, <2>3
<1>17. VoidsApart(code')
  <2>1. VoidsApart(code)
    BY <1>1 DEF EInv
  <2> SUFFICES ASSUME NEW i \in 1..Len(code'), code'[i].cmd = "VOID"
               PROVE  i > 1 /\ code'[i - 1].cmd # "VOID"
    BY DEF VoidsApart
  <2>2. CASE i <= Len(code)
    <3>1. i \in 1..Len(code)
      BY <1>1, <2>2
    <3>2. i > 1 /\ code[i - 1].cmd # "VOID"
      BY <1>8, <2>1, <3>1 DEF VoidsApart
    <3>3. i - 1 \in 1..Len(code)
      BY <3>1, <3>2
    <3> QED
      BY <1>8, <3>2, <3>3
  <2>3. CASE i > Len(code)
    <3> DEFINE j == i - Len(code)
    <3>1. j \in 1..Len(chunks) /\ i = Len(code) + j
      BY <1>1, <1>3, <1>8, <2>3
    <3> HIDE DEF j
    <3>2. chunks[j].cmd = "VOID"
      BY <1>8, <3>1
    <3>3. j = 2 /\ chunks[1].cmd # "VOID"
      BY <1>1, <3>1, <3>2, ShapeOfLine DEF chunks
    <3>4. 1 \in 1..Len(chunks) /\ i - 1 = Len(code) + 1 /\ i > 1
      BY <1>1, <1>3, <3>1, <3>3
    <3> QED
      BY <1>8, <3>3, <3>4
  <2> QED
    BY <1>1, <2>2, <2>3
<1>18. CASE stage' = "emit"
  <2>1. JumpsPatched' /\ Finished'
    BY <1>18 DEF JumpsPatched, Finished
  <2> QED
    BY <1>11, <1>15, <1>16, <1>17, <1>18, <2>1 DEF EInv
<1> QED
  BY <1>2, <1>18, GivenUp
-------------------------------------------------------------------------------
LEMMA EEmitDoneStep ==
  ASSUME AssemblerConstants, AInv, EInv, EmitDone
  PROVE  EInv'
<1>1. /\ stage = "emit" /\ stage' = "arrange"
      /\ line = Len(src) \/ quiet >= CYCLE_LIMIT
      /\ UNCHANGED <<src, line, quiet, code, labels, jmps, jmp, found, error, bin>>
  BY DEF EmitDone
<1>2. Emitted /\ LabelsNoted /\ JumpsNoted /\ VoidsApart(code) /\ jmp = 0
  BY <1>1 DEF EInv, AInv, EntryReady
<1>3. WithinLimit => line = Len(src)
  <2>1. /\ line \in Nat /\ line <= Len(src) /\ quiet \in Nat /\ quiet <= line
        /\ Len(src) \in Nat /\ CYCLE_LIMIT \in Nat
    BY <1>1, <1>2, Typed DEF Emitted
  <2> QED
    BY <1>1, <2>1 DEF WithinLimit, BufferChunks
<1>4. Emitted'
  BY <1>1, <1>2, <1>3 DEF Emitted, WithinLimit, BufferChunks
<1>5. LabelsNoted' /\ JumpsNoted'
  BY <1>1, <1>2 DEF LabelsNoted, JumpsNoted
<1>6. VoidsApart(code')
  BY <1>1, <1>2
<1>7. JumpsPatched' /\ Finished'
  BY <1>1, <1>2 DEF JumpsPatched, Finished
<1> QED
  BY <1>1, <1>4, <1>5, <1>6, <1>7 DEF EInv

(* A jump of the table stands in the code where the table says.            *)
LEMMA JumpStands ==
  ASSUME AssemblerConstants, AInv, EInv, stage = "arrange", NEW j \in 1..Len(jmps)
  PROVE  /\ jmps[j].ip \in Nat /\ jmps[j].ip + 1 \in 1..Len(code)
         /\ code[jmps[j].ip + 1].cmd \in LabelCommands
         /\ jmps[j].ip = 0 <=> j = 1
<1> DEFINE U == ChunksUpTo(src)
<1>1. /\ Len(code) >= 1 /\ code[1].cmd = "JMP" /\ Len(jmps) >= 1 /\ jmps[1].ip = 0
      /\ Len(code) \in Nat /\ Len(jmps) \in Nat
  BY Typed DEF EInv, Emitted, AInv, EntryReady
<1>2. CASE j = 1
  BY <1>1, <1>2 DEF LabelCommands
<1>3. CASE j # 1
  <2>1. j \in 2..Len(jmps)
    BY <1>1, <1>3
  <2>2. PICK k \in 1..line : src[k].op \in LabelCommands /\ jmps[j] = Entry(src, k)
    BY <2>1 DEF EInv, JumpsNoted
  <2>3. k \in 1..Len(src) /\ LineAt(code, src, k) /\ src[k] \in LineType /\ src \in Seq(LineType)
    BY Typed DEF EInv, Emitted
  <2>4. Len(ChunksOf(src[k])) = 1 /\ ChunksOf(src[k])[1].cmd = src[k].op
    BY <2>2, <2>3, ChunksOfLine, ShapeOfLine
  <2>5. U[k] = U[k - 1] + 1 /\ U[k - 1] \in Nat /\ U[k - 1] >= 1
    <3>1. k - 1 \in 0..Len(src)
      BY <2>3, Typed
    <3> QED
      BY <2>3, <2>4, <3>1, Positions
  <2>6. U[k] <= Len(code) /\ code[U[k - 1] + 1].cmd \in LabelCommands
    BY <2>2, <2>3, <2>4 DEF LineAt
  <2>7. jmps[j].ip = U[k - 1]
    BY <2>2 DEF Entry
  <2> HIDE DEF U
  <2> QED
    BY <1>1, <1>3, <2>5, <2>6, <2>7
<1> QED
  BY <1>2, <1>3

(* No two jumps of the table stand in the same place.                      *)
LEMMA JumpsApart ==
  ASSUME AssemblerConstants, AInv, EInv, stage = "arrange",
         NEW i \in 2..Len(jmps), NEW j \in 2..Len(jmps), jmps[i].ip = jmps[j].ip
  PROVE  jmps[i] = jmps[j]
<1> DEFINE U == ChunksUpTo(src)
<1>1. PICK k \in 1..line : src[k].op \in LabelCommands /\ jmps[i] = Entry(src, k)
  BY DEF EInv, JumpsNoted
<1>2. PICK m \in 1..line : src[m].op \in LabelCommands /\ jmps[j] = Entry(src, m)
  BY DEF EInv, JumpsNoted
<1>3. /\ k \in 1..Len(src) /\ m \in 1..Len(src) /\ Len(src) \in Nat
      /\ src[k] \in LineType /\ src[m] \in LineType /\ src \in Seq(LineType)
  BY Typed, SMTT(30)
<1>4. U[k - 1] = U[m - 1]
  BY <1>1, <1>2 DEF Entry
<1>5. /\ k - 1 \in 0..Len(src) /\ m - 1 \in 0..Len(src)
      /\ k \in 0..Len(src) /\ m \in 0..Len(src)
  BY <1>3
<1>6. /\ U[k] = U[k - 1] + 1 /\ U[m] = U[m - 1] + 1
      /\ \A a, b \in 0..Len(src) : a <= b => U[a] <= U[b]
      /\ \A a \in 0..Len(src) : U[a] \in Nat
  BY <1>1, <1>2, <1>3, <1>5, Positions, ChunksOfLine
<1> HIDE DEF U
<1>7. ~ (k <= m - 1) /\ ~ (m <= k - 1)
  BY <1>4, <1>5, <1>6, SMTT(30)
<1>8. k = m
  BY <1>3, <1>7
<1> QED
  BY <1>1, <1>2, <1>8

(* The labels lie inside the code.                                         *)
LEMMA LabelStands ==
  ASSUME AssemblerConstants, AInv, EInv, stage = "arrange", NEW j \in 1..Len(labels)
  PROVE  labels[j].ip \in Nat /\ labels[j].ip <= Len(code)
<1> DEFINE U == ChunksUpTo(src)
<1>1. PICK m \in 1..line : src[m].op = "LABEL" /\ labels[j] = Entry(src, m)
  BY DEF EInv, LabelsNoted
<1>2. src \in Seq(LineType) /\ line \in 0..Len(src) /\ Len(src) \in Nat /\ Len(code) = U[line]
  BY Typed DEF EInv, Emitted
<1>3. m - 1 \in 0..Len(src) /\ m - 1 <= line
  BY <1>2
<1>4. U[m - 1] \in Nat /\ U[m - 1] <= U[line]
  BY <1>2, <1>3, Positions
<1> QED
  BY <1>1, <1>2, <1>4 DEF Entry

LEMMA MatchingLabels ==
  ASSUME AssemblerConstants, AInv, NEW name, Matching(name) # {}
  PROVE  /\ Chosen(Matching(name)) \in 1..Len(labels)
         /\ Chosen(Matching(name)) \in Matching(name)
         /\ \A i \in Matching(name) : Chosen(Matching(name)) <= i
<1>1. Matching(name) \subseteq 1..Len(labels)
  BY Typed, LenProperties DEF Matching
<1>2. Matching(name) \subseteq Nat
  BY <1>1
<1> QED
  BY <1>1, <1>2, FirstIsLeast DEF Chosen

LEMMA EFoundStep ==
  ASSUME AssemblerConstants, AInv, EInv, ArrangeFound
  PROVE  EInv'
<1> DEFINE here == jmps[jmp + 1]
           there == labels[Chosen(Matching(here.name))].ip
<1>1. /\ stage = "arrange" /\ jmp < Len(jmps)
      /\ Matching(here.name) # {}
      /\ code' = Patched(code, here.ip, there)
      /\ jmp' = jmp + 1
      /\ UNCHANGED <<src, stage, line, quiet, labels, jmps, error, bin>>
  BY DEF ArrangeFound
<1>2. /\ src \in Seq(LineType) /\ Len(src) \in Nat
      /\ code \in Seq(ChunkType) /\ Len(code) \in Nat /\ Len(jmps) \in Nat
      /\ line \in 0..Len(src) /\ jmp \in 0..Len(jmps) /\ CYCLE_LIMIT \in Nat
  BY Typed
<1>3. jmp + 1 \in 1..Len(jmps) /\ (jmp # 0 => jmp + 1 \in 2..Len(jmps))
  BY <1>1, <1>2
<1>4. /\ here.ip \in Nat /\ here.ip + 1 \in 1..Len(code)
      /\ code[here.ip + 1].cmd \in LabelCommands
  BY <1>1, <1>3, JumpStands
<1>5. there \in Nat /\ there <= Len(code)
  BY <1>1, LabelStands, MatchingLabels
<1>6. /\ Emitted /\ LabelsNoted /\ JumpsNoted /\ VoidsApart(code) /\ JumpsPatched
      /\ Len(code) >= 1 /\ Len(code) < BufferChunks
  BY <1>1 DEF EInv, AInv, EntryReady
<1> HIDE DEF here, there
<1>7. /\ code' \in Seq(ChunkType) /\ Len(code') = Len(code)
      /\ \A i \in 1..Len(code) :
           /\ code'[i].cmd = code[i].cmd /\ code'[i].mode = code[i].mode
           /\ i # here.ip + 1 => code'[i] = code[i]
           /\ i = here.ip + 1 => code'[i].arg = there % ThreeBytes
  <2>1. code \in Seq(ChunkType) /\ here.ip \in Nat /\ there \in Nat
    BY <1>2, <1>4, <1>5
  <2> DEFINE new == Patched(code, here.ip, there)
  <2>2. /\ new \in Seq(ChunkType) /\ Len(new) = Len(code)
        /\ \A i \in 1..Len(code) :
             /\ new[i].cmd = code[i].cmd /\ new[i].mode = code[i].mode
             /\ i # here.ip + 1 => new[i] = code[i]
             /\ i = here.ip + 1 => new[i].arg = there % ThreeBytes
    BY <2>1, PatchedOne, ZenonT(30)
  <2>3. code' = new
    BY <1>1
  <2> HIDE DEF new
  <2> QED
    BY <2>2, <2>3
<1>8. \A k \in 1..line : LineAt(code', src, k)
  <2>1. \A k \in 1..line : k \in 1..Len(src) /\ LineAt(code, src, k)
    BY <1>1, <1>2, <1>6 DEF Emitted
  <2> QED
    BY <1>1, <1>2, <1>4, <1>5, <2>1, LinePatched
<1>9. Emitted'
  <2>1. 1 \in 1..Len(code)
    BY <1>2, <1>6
  <2>2. code'[1].cmd = "JMP" /\ Len(code') = ChunksUpTo(src)[line]
    BY <1>1, <1>6, <1>7, <2>1 DEF Emitted
  <2> QED
    BY <1>1, <1>6, <1>8, <2>2 DEF Emitted, WithinLimit, BufferChunks
<1>10. LabelsNoted' /\ JumpsNoted'
  BY <1>1, <1>6 DEF LabelsNoted, JumpsNoted
<1>11. VoidsApart(code')
  <2> SUFFICES ASSUME NEW i \in 1..Len(code), code[i].cmd = "VOID"
               PROVE  i > 1 /\ code'[i - 1].cmd # "VOID"
    BY <1>7 DEF VoidsApart
  <2>1. i > 1 /\ code[i - 1].cmd # "VOID"
    BY <1>6 DEF VoidsApart
  <2>2. i - 1 \in 1..Len(code)
    BY <1>2, <2>1
  <2> QED
    BY <1>7, <2>1, <2>2
<1>12. JumpsPatched'
  <2> SUFFICES ASSUME WithinLimit, NEW j \in 2..(jmp + 1), Matching(jmps[j].name) # {}
               PROVE  code'[jmps[j].ip + 1].arg = labels[Chosen(Matching(jmps[j].name))].ip
    BY <1>1 DEF JumpsPatched, WithinLimit, BufferChunks, Matching
  <2>1. j \in 2..Len(jmps) /\ j \in 1..Len(jmps) /\ jmp # 0
    BY <1>2, <1>3
  <2>2. jmps[j].ip \in Nat /\ jmps[j].ip + 1 \in 1..Len(code)
    BY <1>1, <2>1, JumpStands
  <2>3. CASE jmps[j].ip = here.ip
    <3>1. jmps[j] = here
      BY <1>1, <1>3, <2>1, <2>3, JumpsApart DEF here
    <3>2. there % ThreeBytes = there
      <4>1. there < ThreeBytes
        BY <1>2, <1>5, <1>6 DEF WithinLimit, BufferChunks, AssemblerConstants, ThreeBytes
      <4> QED
        BY <1>5, <4>1 DEF ThreeBytes
    <3> QED
      BY <1>7, <2>2, <2>3, <3>1, <3>2 DEF there
  <2>4. CASE jmps[j].ip # here.ip
    <3>1. j \in 2..jmp
      BY <1>2, <2>4 DEF here
    <3>2. code[jmps[j].ip + 1].arg = labels[Chosen(Matching(jmps[j].name))].ip
      BY <1>1, <1>6, <3>1 DEF JumpsPatched
    <3>3. jmps[j].ip + 1 # here.ip + 1
      BY <1>4, <2>2, <2>4
    <3> QED
      BY <1>7, <2>2, <3>2, <3>3
  <2> QED
    BY <2>3, <2>4
<1>13. Finished'
  BY <1>1 DEF Finished
<1> QED
  BY <1>1, <1>9, <1>10, <1>11, <1>12, <1>13 DEF EInv

LEMMA EMissingStep ==
  ASSUME AssemblerConstants, AInv, EInv, ArrangeMissing
  PROVE  EInv'
<1>1. /\ stage = "arrange" /\ jmp < Len(jmps)
      /\ Matching(jmps[jmp + 1].name) = {}
      /\ jmp' = IF Len(labels) + 1 >= CYCLE_LIMIT THEN Len(jmps) ELSE jmp + 1
      /\ UNCHANGED <<src, stage, line, quiet, code, labels, jmps, found, bin>>
  BY DEF ArrangeMissing
<1>2. /\ Len(src) \in Nat /\ Len(labels) \in Nat /\ line \in 0..Len(src)
      /\ jmp \in 0..Len(jmps) /\ Len(jmps) \in Nat
      /\ CYCLE_LIMIT \in Nat /\ CYCLE_LIMIT > 4
  BY Typed DEF AssemblerConstants
<1>3. Emitted /\ LabelsNoted /\ JumpsNoted /\ VoidsApart(code) /\ JumpsPatched
  BY <1>1 DEF EInv
<1>4. Emitted'
  BY <1>1, <1>3 DEF Emitted, WithinLimit, BufferChunks
<1>5. LabelsNoted' /\ JumpsNoted'
  BY <1>1, <1>3 DEF LabelsNoted, JumpsNoted
<1>6. WithinLimit => jmp' = jmp + 1
  <2>1. Len(labels) <= line
    BY <1>1, <1>3 DEF LabelsNoted
  <2> QED
    BY <1>1, <1>2, <2>1 DEF WithinLimit, BufferChunks
<1>7. JumpsPatched'
  <2> SUFFICES ASSUME WithinLimit, NEW j \in 2..(jmp + 1), Matching(jmps[j].name) # {}
               PROVE  code[jmps[j].ip + 1].arg = labels[Chosen(Matching(jmps[j].name))].ip
    BY <1>1, <1>6 DEF JumpsPatched, WithinLimit, BufferChunks, Matching
  <2>1. j \in 2..jmp
    BY <1>1, <1>2
  <2> QED
    BY <1>1, <1>3, <2>1 DEF JumpsPatched
<1>8. Finished'
  BY <1>1 DEF Finished
<1>9. VoidsApart(code')
  BY <1>1, <1>3
<1> QED
  BY <1>1, <1>4, <1>5, <1>7, <1>8, <1>9 DEF EInv
-------------------------------------------------------------------------------
(* Of the labels a jump may mean, the first in the table is the one of the *)
(* first line, if no other name begins with the jump's.                    *)
LEMMA EArrangeDoneStep ==
  ASSUME AssemblerConstants, AInv, EInv, ArrangeDone
  PROVE  EInv'
<1> DEFINE U == ChunksUpTo(src)
<1>1. /\ stage = "arrange" /\ jmp = Len(jmps)
      /\ stage' \in {"failed", "reduce"}
      /\ UNCHANGED <<src, line, quiet, code, labels, jmps, jmp, found, error, bin>>
  BY DEF ArrangeDone
<1>2. Emitted /\ LabelsNoted /\ JumpsNoted /\ VoidsApart(code) /\ JumpsPatched
  BY <1>1 DEF EInv
<1>3. ASSUME WithinLimit
      PROVE  JumpsLead(code)
  <2>1. /\ line = Len(src) /\ Len(src) \in Nat /\ CYCLE_LIMIT \in Nat
        /\ src \in Seq(LineType) /\ Len(labels) \in Nat /\ Len(labels) <= line
        /\ DOMAIN src = 1..Len(src) /\ DOMAIN labels = 1..Len(labels)
        /\ \A k \in 1..Len(src) : src[k].name \in Names
    BY <1>1, <1>2, <1>3, Typed, LenProperties DEF Emitted, LabelsNoted, LineType
  <2> SUFFICES ASSUME NEW k \in 1..Len(src), src[k].op \in LabelCommands,
                      LabelLines(src[k].name) # {}
               PROVE  /\ code[U[k - 1] + 1].arg # POISON_JMP_POS
                      /\ Unambiguous(src[k].name) =>
                           code[U[k - 1] + 1].arg = U[FirstOf(LabelLines(src[k].name)) - 1]
    BY DEF JumpsLead, Position
  <2> DEFINE name == src[k].name
             S == LabelLines(name)
             M == Matching(name)
             first == FirstOf(S)
             c == Chosen(M)
  <2>2. PICK j \in 2..Len(jmps) : jmps[j] = Entry(src, k)
    BY <1>1, <1>2, <2>1 DEF JumpsNoted
  <2>3. jmps[j].name = name /\ jmps[j].ip = U[k - 1]
    BY <2>2 DEF Entry
  <2>4. first \in S /\ \A m \in S : first <= m
    <3>1. S \subseteq Nat /\ S # {}
      BY <2>1 DEF LabelLines
    <3> QED
      BY <3>1, FirstIsLeast
  <2>5. first \in 1..Len(src) /\ src[first].op = "LABEL" /\ src[first].name = name
    BY <2>1, <2>4 DEF LabelLines
  <2>6. PICK b \in 1..Len(labels) : labels[b] = Entry(src, first)
    BY <1>1, <1>2, <2>1, <2>5 DEF LabelsNoted
  <2>7. labels[b].name = name /\ labels[b].ip = U[first - 1]
    BY <2>5, <2>6 DEF Entry
  <2>8. b \in M
    <3>1. b <= CYCLE_LIMIT
      BY <1>3, <2>1 DEF WithinLimit, BufferChunks
    <3>2. <<name, name>> \in Prefixes
      BY <2>1 DEF AssemblerConstants
    <3> QED
      BY <2>1, <2>7, <3>1, <3>2 DEF Matching
  <2>9. c \in 1..Len(labels) /\ c \in M /\ c <= b
    BY <2>8, MatchingLabels
  <2>10. code[U[k - 1] + 1].arg = labels[c].ip
    BY <1>1, <1>2, <1>3, <2>2, <2>3, <2>8 DEF JumpsPatched
  <2>11. PICK m \in 1..line : src[m].op = "LABEL" /\ labels[c] = Entry(src, m)
    BY <1>1, <1>2, <2>9 DEF LabelsNoted
  <2>12. labels[c].name = src[m].name /\ labels[c].ip = U[m - 1]
    BY <2>11 DEF Entry
  <2>13. <<name, src[m].name>> \in Prefixes
    BY <2>9, <2>12 DEF Matching
  <2>14. code[U[k - 1] + 1].arg # POISON_JMP_POS
    <3>1. labels \in Seq(EntryType)
      BY Typed
    <3> HIDE DEF c
    <3>2. labels[c].ip \in Nat
      <4>1. labels[c] \in EntryType
        BY <2>9, <3>1, ElementOfSeq
      <4> QED
        BY <4>1 DEF EntryType
    <3> QED
      BY <2>10, <3>2 DEF POISON_JMP_POS
  <2>15. ASSUME Unambiguous(name)
         PROVE  labels[c].ip = U[first - 1]
    <3>1. m \in S
      BY <2>1, <2>11, <2>13, <2>15 DEF Unambiguous, LabelLines
    <3>2. first <= m
      BY <2>4, <3>1
    <3>3. labels[c].ip <= labels[b].ip
      BY <1>1, <1>2, <2>9 DEF LabelsNoted
    <3> HIDE DEF first, c
    <3>4. first - 1 \in 0..Len(src) /\ m - 1 \in 0..Len(src) /\ first - 1 <= m - 1
      BY <2>1, <2>5, <3>2
    <3>5. U[first - 1] \in Nat /\ U[m - 1] \in Nat /\ U[first - 1] <= U[m - 1]
      BY <2>1, <3>4, Positions
    <3> QED
      BY <2>7, <2>12, <3>3, <3>5
  <2> QED
    BY <2>10, <2>14, <2>15
<1>4. CASE stage' = "reduce"
  <2>1. Emitted'
    BY <1>1, <1>2, <1>4 DEF Emitted, WithinLimit, BufferChunks
  <2>2. LabelsNoted' /\ JumpsNoted' /\ JumpsPatched'
    BY <1>4 DEF LabelsNoted, JumpsNoted, JumpsPatched
  <2>3. WithinLimit' = WithinLimit /\ (JumpsLead(code) => JumpsLead(code)')
    <3>1. WithinLimit' = WithinLimit
      BY <1>1 DEF WithinLimit, BufferChunks
    <3>2. \A name : LabelLines(name)' = LabelLines(name)
      BY <1>1 DEF LabelLines
    <3>3. \A name : Unambiguous(name)' = Unambiguous(name)
      BY <1>1 DEF Unambiguous
    <3>4. \A k : Position(k)' = Position(k)
      BY <1>1 DEF Position
    <3> QED
      BY <1>1, <3>1, <3>2, <3>3, <3>4, Zenon DEF JumpsLead
  <2>4. Finished'
    BY <1>3, <1>4, <2>3 DEF Finished
  <2>5. VoidsApart(code')
    BY <1>1, <1>2
  <2> QED
    BY <1>4, <2>1, <2>2, <2>4, <2>5 DEF EInv
<1> QED
  BY <1>1, <1>4, GivenUp

(* The last run of zeros is what is behind the code, but for the data of a *)
(* zero the code ends with.                                                *)
LEMMA KeptIsTheCode ==
  ASSUME AssemblerConstants, AInv, WithinLimit, VoidsApart(code),
         Len(code) >= 1, Len(code) < BufferChunks
  PROVE  LET kept == SubSeq(Buffer, 1, Kept)
         IN  /\ Len(kept) \in Nat /\ Len(code) <= Len(kept)
             /\ \A i \in 1..Len(code) : kept[i] = code[i]
             /\ kept[Len(kept)] = VoidChunk /\ Len(kept) >= 1
<1> DEFINE n == Len(code)
           N == BufferChunks
           runs == ZeroRuns(Buffer, N)
<1>1. /\ code \in Seq(ChunkType) /\ n \in Nat /\ N \in Nat /\ n < N /\ n >= 1
      /\ Scanned = N
  BY Typed DEF WithinLimit, Scanned, BufferChunks
<1>2. VoidChunk \in ChunkType
  BY DEF VoidChunk, Chunk, ChunkType, Modes, LabelCommands
<1>3. Buffer \in Seq(ChunkType) /\ Len(Buffer) = N
  <2>1. \A i \in 1..Len(code) : code[i] \in ChunkType
    BY <1>1, ElementOfSeq
  <2>2. Buffer \in [1..N -> ChunkType]
    BY <1>1, <1>2, <2>1 DEF Buffer
  <2> QED
    BY <1>1, <2>2, LenProperties, SeqDef
<1>4. \A i \in 1..N : Buffer[i] = IF i <= n THEN code[i] ELSE VoidChunk
  BY DEF Buffer
<1>5. \A i \in 1..n : i \in 1..N /\ Buffer[i] = code[i]
  BY <1>1, <1>4
<1>6. n + 1 \in 1..N /\ Buffer[n + 1] = VoidChunk /\ n \in 1..N /\ Buffer[n] = code[n]
  BY <1>1, <1>4, <1>5
<1>7. runs \subseteq 1..N /\ (runs # {} => LastOf(runs) \in runs /\ \A i \in runs : LastOf(runs) >= i)
  <2>1. runs \subseteq 1..N
    BY DEF ZeroRuns
  <2> QED
    BY <1>1, <2>1, LastIsGreatest
<1>8. \A i \in 1..N : i \in runs <=> Buffer[i] = VoidChunk /\ (i > 1 => Buffer[i - 1] # VoidChunk)
  BY DEF ZeroRuns
<1>9. Kept = IF runs = {} THEN 1 ELSE LastOf(runs)
  BY <1>1 DEF Kept
<1> HIDE DEF n, N, runs
<1>10. Kept \in n..(n + 1) /\ Buffer[Kept] = VoidChunk
  <2>1. CASE code[n] = VoidChunk
    <3>1. n > 1 /\ code[n - 1] # VoidChunk
      <4>1. code[n].cmd = "VOID" /\ n \in 1..n
        BY <1>1, <2>1 DEF VoidChunk, Chunk
      <4>2. n > 1 /\ code[n - 1].cmd # "VOID"
        BY <4>1 DEF VoidsApart, n
      <4> QED
        BY <4>2 DEF VoidChunk, Chunk
    <3>2. Buffer[n - 1] = code[n - 1]
      BY <1>1, <1>5, <3>1
    <3>3. n \in runs
      BY <1>6, <1>8, <2>1, <3>1, <3>2
    <3>4. \A i \in runs : i <= n
      <4> SUFFICES ASSUME NEW i \in runs, i > n
                   PROVE  FALSE
        BY <1>1, <1>7
      <4>1. i \in 1..N /\ i - 1 \in 1..N /\ i - 1 >= n /\ i > 1
        BY <1>1, <1>7
      <4>2. Buffer[i - 1] = VoidChunk
        BY <1>1, <1>4, <2>1, <4>1
      <4> QED
        BY <1>8, <4>1, <4>2
    <3>5. LastOf(runs) = n
      <4>1. LastOf(runs) \in 1..N /\ LastOf(runs) <= n /\ LastOf(runs) >= n
        BY <1>7, <3>3, <3>4, Zenon
      <4> QED
        BY <1>1, <4>1
    <3> QED
      BY <1>1, <1>6, <1>9, <2>1, <3>3, <3>5
  <2>2. CASE code[n] # VoidChunk
    <3>1. n + 1 \in runs
      BY <1>1, <1>6, <1>8, <2>2
    <3>2. \A i \in runs : i <= n + 1
      <4> SUFFICES ASSUME NEW i \in runs, i > n + 1
                   PROVE  FALSE
        BY <1>1, <1>7
      <4>1. i \in 1..N /\ i - 1 \in 1..N /\ ~ (i - 1 <= n) /\ i > 1
        BY <1>1, <1>7
      <4>2. Buffer[i - 1] = VoidChunk
        BY <1>4, <4>1
      <4> QED
        BY <1>8, <4>1, <4>2
    <3>3. LastOf(runs) = n + 1
      <4>1. LastOf(runs) \in 1..N /\ LastOf(runs) <= n + 1 /\ LastOf(runs) >= n + 1
        BY <1>7, <3>1, <3>2, Zenon
      <4> QED
        BY <1>1, <4>1
    <3> QED
      BY <1>1, <1>6, <1>9, <3>1, <3>3
  <2> QED
    BY <2>1, <2>2
<1> HIDE DEF Kept, Buffer
<1>11. /\ Len(SubSeq(Buffer, 1, Kept)) = Kept
       /\ \A i \in 1..Kept : SubSeq(Buffer, 1, Kept)[i] = Buffer[i]
  <2>1. Kept \in Nat /\ Kept <= Len(Buffer)
    BY <1>1, <1>3, <1>10
  <2> QED
    BY <1>3, <2>1, PrefixOfSeq
<1>12. Kept \in Nat /\ n <= Kept /\ Kept >= 1 /\ Kept \in 1..Kept
  BY <1>1, <1>10
<1>13. \A i \in 1..n : i \in 1..Kept
  BY <1>1, <1>12
<1> QED
  BY <1>5, <1>10, <1>11, <1>12, <1>13 DEF n

LEMMA EReduceStep ==
  ASSUME AssemblerConstants, AInv, EInv, ReduceBufferSize
  PROVE  EInv'
<1>1. /\ stage = "reduce" /\ stage' = "write"
      /\ code' = SubSeq(Buffer, 1, Kept)
      /\ UNCHANGED <<src, line, quiet, labels, jmps, jmp, found, error, bin>>
  BY DEF ReduceBufferSize
<1>2. /\ Emitted /\ VoidsApart(code) /\ Finished
      /\ Len(code) >= 1 /\ Len(code) < BufferChunks
  BY <1>1 DEF EInv, AInv, EntryReady
<1>3. ASSUME WithinLimit
      PROVE  Complete(code')
  <2>1. /\ Len(code') \in Nat /\ Len(code) <= Len(code') /\ Len(code') >= 1
        /\ \A i \in 1..Len(code) : code'[i] = code[i]
        /\ code'[Len(code')] = VoidChunk
    BY <1>1, <1>2, <1>3, KeptIsTheCode
  <2>2. \A k \in 1..Len(src) : LineAt(code, src, k)
    BY <1>1, <1>2, <1>3 DEF Emitted
  <2>3. src \in Seq(LineType) /\ Len(code) \in Nat /\ Len(src) \in Nat
    BY Typed
  <2>4. \A k \in 1..Len(src) : LineAt(code', src, k)
    BY <2>1, <2>2, <2>3, LineKept
  <2>5. JumpsLead(code')
    <3>1. JumpsLead(code)
      BY <1>1, <1>2, <1>3 DEF Finished
    <3>2. ASSUME NEW k \in 1..Len(src), src[k].op \in LabelCommands
          PROVE  code'[Position(k) + 1] = code[Position(k) + 1]
      <4>1. /\ ChunksUpTo(src)[k] = ChunksUpTo(src)[k - 1] + 1
            /\ ChunksUpTo(src)[k - 1] \in Nat
        <5>1. src[k] \in LineType /\ k - 1 \in 0..Len(src)
          BY <2>3, Typed
        <5>2. Len(ChunksOf(src[k])) = 1
          BY <3>2, <5>1, ChunksOfLine
        <5> QED
          BY <2>3, <5>1, <5>2, Positions
      <4>2. ChunksUpTo(src)[k] <= Len(code)
        BY <2>2 DEF LineAt
      <4>3. ChunksUpTo(src)[k - 1] + 1 \in 1..Len(code)
        BY <2>3, <4>1, <4>2
      <4> QED
        BY <2>1, <4>3 DEF Position
    <3> QED
      BY <3>1, <3>2 DEF JumpsLead
  <2>6. code' # << >>
    BY <2>1
  <2> QED
    BY <2>1, <2>4, <2>5, <2>6 DEF Complete
<1>4. WithinLimit' = WithinLimit /\ (Complete(code') => Complete(code)')
  BY <1>1, ZenonT(30) DEF WithinLimit, BufferChunks, Complete, JumpsLead, LabelLines, Unambiguous, Position
<1>5. Finished'
  BY <1>1, <1>3, <1>4 DEF Finished
<1> QED
  BY <1>1, <1>5 DEF EInv, Emitted, LabelsNoted, JumpsNoted, JumpsPatched

LEMMA EWriteStep ==
  ASSUME AssemblerConstants, AInv, EInv, CreateBin
  PROVE  EInv'
<1>1. /\ stage = "write" /\ stage' = "done" /\ bin' = code
      /\ UNCHANGED <<src, line, quiet, code, labels, jmps, jmp, found, error>>
  BY DEF CreateBin
<1>2. WithinLimit => Complete(code)
  BY <1>1 DEF EInv, Finished
<1>3. WithinLimit' = WithinLimit /\ (Complete(code) => Complete(bin)')
  <2>1. WithinLimit' = WithinLimit
    BY <1>1 DEF WithinLimit, BufferChunks
  <2>2. \A name : LabelLines(name)' = LabelLines(name)
    BY <1>1 DEF LabelLines
  <2>3. \A name : Unambiguous(name)' = Unambiguous(name)
    BY <1>1 DEF Unambiguous
  <2>4. \A k : Position(k)' = Position(k)
    BY <1>1 DEF Position
  <2>5. JumpsLead(code) => JumpsLead(bin)'
    BY <1>1, <2>2, <2>3, <2>4, Zenon DEF JumpsLead
  <2> QED
    BY <1>1, <2>1, <2>5 DEF Complete
<1>4. Finished'
  BY <1>1, <1>2, <1>3 DEF Finished
<1> QED
  BY <1>1, <1>4 DEF EInv, Emitted, LabelsNoted, JumpsNoted, JumpsPatched

LEMMA EStutterStep ==
  ASSUME EInv, UNCHANGED avars
  PROVE  EInv'
<1>1. UNCHANGED <<src, stage, line, quiet, code, labels, jmps, jmp, found, error, bin>>
  BY DEF avars
<1>2. Emitted' /\ LabelsNoted' /\ JumpsNoted'
  BY <1>1 DEF EInv, Emitted, LabelsNoted, JumpsNoted, WithinLimit, BufferChunks
<1>3. stage' \in {"emit", "arrange", "reduce"} => VoidsApart(code')
  BY <1>1 DEF EInv
<1>4. JumpsPatched'
  BY <1>1 DEF EInv, JumpsPatched, Matching, WithinLimit, BufferChunks
<1>5. Finished'
  <2>1. WithinLimit' = WithinLimit
    BY <1>1 DEF WithinLimit, BufferChunks
  <2>2. JumpsLead(code) => JumpsLead(code)'
    BY <1>1, ZenonT(30) DEF JumpsLead, LabelLines, Unambiguous, Position
  <2>3. Complete(code) => Complete(code)'
    BY <1>1, ZenonT(30) DEF Complete, JumpsLead, LabelLines, Unambiguous, Position
  <2>4. Complete(bin) => Complete(bin)'
    BY <1>1, ZenonT(30) DEF Complete, JumpsLead, LabelLines, Unambiguous, Position
  <2> QED
    BY <1>1, <2>1, <2>2, <2>3, <2>4 DEF EInv, Finished
<1> QED
  BY <1>1, <1>2, <1>3, <1>4, <1>5 DEF EInv

LEMMA EmittedInvariance == ASpec => [](AInv /\ EInv)
<1>1. AInit => EInv
  BY EAtFirst
<1>2. AInv /\ EInv /\ [ANext]_avars => EInv'
  <2>1. ASSUME AInv, EInv, EnvironmentFails
        PROVE  EInv'
    BY <2>1, GivenUp DEF EnvironmentFails
  <2> QED
    BY <2>1, AssemblerConstants, EParseStep, EEmitStep, EEmitDoneStep, EFoundStep,
       EMissingStep, EArrangeDoneStep, EReduceStep, EWriteStep, EStutterStep DEF ANext
<1> QED
  BY <1>1, <1>2, AssemblerInvariance, PTL DEF ASpec

(* The finished file is the program: every line's chunks stand where the   *)
(* lines before it end, and every jump leads to the first line of its      *)
(* label.                                                                  *)
THEOREM AssembledAsWritten == ASpec => []AssembledFaithfully
<1>1. AInv /\ EInv => AssembledFaithfully
  <2> SUFFICES ASSUME AInv, EInv, stage = "done", WithinLimit,
                      NEW k \in DOMAIN src, NEW c \in DOMAIN ChunksOf(src[k])
               PROVE  LET at == Position(k) + c
                          wanted == ChunksOf(src[k])[c]
                          targets == LabelLines(src[k].name)
                      IN  /\ at <= Len(bin)
                          /\ IF src[k].op \in LabelCommands
                             THEN /\ bin[at].cmd = wanted.cmd
                                  /\ (targets # {} /\ Unambiguous(src[k].name))
                                       => bin[at].arg = Position(FirstOf(targets))
                             ELSE bin[at] = wanted
    BY DEF AssembledFaithfully
  <2>1. /\ src \in Seq(LineType) /\ k \in 1..Len(src) /\ src[k] \in LineType
        /\ bin \in Seq(ChunkType) /\ Len(bin) \in Nat /\ Len(src) \in Nat
    BY AssemblerConstants, Typed, LenProperties DEF AInv, AssemblerTypeOK
  <2>2. /\ ChunksOf(src[k]) \in Seq(ChunkType) /\ c \in 1..Len(ChunksOf(src[k]))
        /\ Len(ChunksOf(src[k])) \in Nat
        /\ src[k].op \in LabelCommands => c = 1
    BY <2>1, ChunksOfLine, LenProperties
  <2>3. LineAt(bin, src, k) /\ JumpsLead(bin)
    BY <2>1 DEF EInv, Finished, Complete
  <2>4. /\ ChunksUpTo(src)[k] = ChunksUpTo(src)[k - 1] + Len(ChunksOf(src[k]))
        /\ ChunksUpTo(src)[k - 1] \in Nat
    <3>1. k - 1 \in 0..Len(src)
      BY <2>1
    <3> QED
      BY <2>1, <3>1, Positions
  <2>5. Position(k) + c <= Len(bin)
    BY <2>1, <2>2, <2>3, <2>4 DEF LineAt, Position
  <2>6. CASE src[k].op \in LabelCommands
    BY <2>1, <2>2, <2>3, <2>5, <2>6 DEF LineAt, Position, JumpsLead
  <2>7. CASE src[k].op \notin LabelCommands
    BY <2>1, <2>2, <2>3, <2>5, <2>7 DEF LineAt, Position
  <2> QED
    BY <2>6, <2>7
<1> QED
  BY <1>1, EmittedInvariance, PTL

(* The finished file ends with a VOID chunk.                               *)
THEOREM EndsInVoid == ASpec => []ClosedByVoid
<1>1. EInv => ClosedByVoid
  BY DEF EInv, Finished, Complete, ClosedByVoid
<1> QED
  BY <1>1, EmittedInvariance, PTL
===============================================================================
