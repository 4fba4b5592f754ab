------------------------------- MODULE Assembler -------------------------------
(***************************************************************************)
(* CPU/CPU/Assembler: compile() turning the lines of an assembly file into *)
(* byte code.  cmds_process writes the chunks of every line and notes the  *)
(* labels and the jumps it meets, arrange_labels patches the jumps,        *)
(* reduce_buffer_size cuts the unused end of the buffer off, create_bin    *)
(* writes the file.                                                        *)
(*                                                                         *)
(* Writing behind the byte code buffer or the table of jumps is undefined; *)
(* the assembler is then in stage "overrun" and not described any further. *)
(***************************************************************************)
EXTENDS Bytecode

CONSTANTS Sources,      \* the assembly files: sequences of lines
          Names,        \* names of labels
          Prefixes,     \* pairs <<p, n>>: p is n, or n begins with p
          MainName,     \* MAIN_JMP_NAME
          CYCLE_LIMIT   \* iterations after which FOR_END leaves a loop (10000)

(* A line: its command, LABEL for ":name", UNKNOWN for one no DEF_CMD of   *)
(* cmd_definitions.h recognises; the mode and the number it gives; the     *)
(* name of a label or of a jump's target.                                  *)
LineType == [op : Commands \cup {"LABEL", "UNKNOWN"},
             mode : Modes, arg : Int, name : Names]

(* Three bytes of a jump are patched; the zero behind them clears the      *)
(* fourth.                                                                 *)
ThreeBytes == 16777216

ASSUME AssemblerConstants ==
  /\ Sources \subseteq Seq(LineType)
  /\ MainName \in Names
  /\ Prefixes \subseteq Names \X Names
  /\ \A n \in Names : <<n, n>> \in Prefixes
  /\ CYCLE_LIMIT \in Nat /\ CYCLE_LIMIT > 4 /\ CYCLE_LIMIT <= ThreeBytes

VARIABLES src,      \* strings.tokens
          stage,    \* read, emit, arrange, reduce, write, done, failed, overrun
          line,     \* line_ID
          quiet,    \* GLOBAL_CYCLE_COUNTER in the loop over the lines
          code,     \* the chunks written to byte_code so far
          labels,   \* labels_w_carriage: [name, ip]
          jmps,     \* jmp_poses_w_carriage: [name, ip]
          jmp,      \* jmp_ID
          found,    \* label_found
          error,    \* error_code of arrange_labels
          bin       \* the contents of the .bin file

avars == <<src, stage, line, quiet, code, labels, jmps, jmp, found, error, bin>>

(* byte_code_size is 16 bytes for each line, the tables an entry for each. *)
BufferChunks == 2 * Len(src)

(* write_to_buf uses snprintf, which writes a zero byte behind each byte,  *)
(* so that a full buffer is already an overrun.                            *)
FitsBuffer(chunks) == Len(chunks) < BufferChunks

FitsTable(table) == Len(table) <= Len(src)
-------------------------------------------------------------------------------
(* Faulty variant: a label takes a chunk of its own.                       *)
ChunksWithLabels(l) ==
  IF l.op = "LABEL" THEN << VoidChunk >>
  ELSE IF l.op = "UNKNOWN" THEN << >>
  ELSE IF l.op \in LabelCommands THEN << Chunk(l.op, "NONE", POISON_JMP_POS) >>
  ELSE IF Width(l.op, l.mode) = 2 THEN << Chunk(l.op, l.mode, 0), DataChunk(l.arg) >>
  ELSE << Chunk(l.op, l.mode, l.arg) >>

(* Faulty variant: an unknown command is written like a plain one.         *)
ChunksOfUnknown(l) ==
  IF l.op = "LABEL" THEN << >>
  ELSE IF l.op \in LabelCommands THEN << Chunk(l.op, "NONE", POISON_JMP_POS) >>
  ELSE IF Width(l.op, l.mode) = 2 THEN << Chunk(l.op, l.mode, 0), DataChunk(l.arg) >>
  ELSE << Chunk(l.op, l.mode, l.arg) >>

(* What a line becomes: the WRITE_ macros.  Lines of unknown commands are  *)
(* skipped without a word.                                                 *)
ChunksOf(l) ==
  IF l.op \in {"LABEL", "UNKNOWN"} THEN << >>
  ELSE IF l.op \in LabelCommands THEN << Chunk(l.op, "NONE", POISON_JMP_POS) >>
  ELSE IF Width(l.op, l.mode) = 2 THEN << Chunk(l.op, l.mode, 0), DataChunk(l.arg) >>
  ELSE << Chunk(l.op, l.mode, l.arg) >>

(* Faulty variant: the position behind the next chunk.                     *)
NextPos(chunks) == Len(chunks) + 1

(* Faulty variant: the position of the last chunk.                         *)
PreviousPos(chunks) == Len(chunks) - 1

(* get_ip_pos: the position, in chunks, where the next one goes.           *)
IpPos(chunks) == Len(chunks)

(* What strncmp over strlen(jump) bytes accepts: any label the name of the *)
(* jump is a prefix of.  The first in the order of the file is taken; the  *)
(* search gives up after CYCLE_LIMIT labels.                               *)
Matching(name) ==
  {i \in DOMAIN labels : i <= CYCLE_LIMIT /\ <<name, labels[i].name>> \in Prefixes}

FirstOf(S) == CHOOSE i \in S : \A j \in S : i <= j

LastOf(S) == CHOOSE i \in S : \A j \in S : i >= j

(* Faulty variant: the last label of a name wins.                          *)
ChosenLast(S) == LastOf(S)

Chosen(S) == FirstOf(S)

(* Faulty variant: a missing label is never reported.                      *)
NeverMissed(before) == before

(* label_found is set by an earlier jump and never cleared.                *)
Missed(before) == before \/ ~found

Patched(chunks, at, ip) == [chunks EXCEPT ![at + 1].arg = ip % ThreeBytes]

(* Where a run of zero chunks begins, among the first n.                   *)
ZeroRuns(buf, n) ==
  {i \in 1..n : buf[i] = VoidChunk /\ (i > 1 => buf[i - 1] # VoidChunk)}

Buffer ==
  [i \in 1..BufferChunks |-> IF i <= Len(code) THEN code[i] ELSE VoidChunk]

(* reduce_buffer_size keeps the buffer up to the first chunk of the last   *)
(* run of zeros its loop gets to see, and one chunk if it sees none.       *)
Scanned == IF BufferChunks <= CYCLE_LIMIT THEN BufferChunks ELSE CYCLE_LIMIT

(* Faulty variant: the chunk that saves a final "push 0" is not kept.      *)
KeptWithoutTail ==
  LET runs == ZeroRuns(Buffer, Scanned)
  IN  IF runs = {} THEN 0 ELSE LastOf(runs) - 1

Kept ==
  LET runs == ZeroRuns(Buffer, Scanned)
  IN  IF runs = {} THEN 1 ELSE LastOf(runs)
-------------------------------------------------------------------------------
AInit ==
  /\ src \in Sources
  /\ stage = "read"
  /\ line = 0
  /\ quiet = 0
  /\ code = << >>
  /\ labels = << >>
  /\ jmps = << >>
  /\ jmp = 0
  /\ found = FALSE
  /\ error = FALSE
  /\ bin = << >>

(* parse_human_code, the allocations of cmds_process and write_main_jmp.   *)
ParseHumanCode ==
  /\ stage = "read"
  /\ code' = << Chunk("JMP", "NONE", POISON_JMP_POS) >>
  /\ jmps' = << [name |-> MainName, ip |-> 0] >>
  /\ stage' = IF FitsBuffer(code') /\ FitsTable(jmps') THEN "emit" ELSE "overrun"
  /\ UNCHANGED <<src, line, quiet, labels, jmp, found, error, bin>>

(* A file cannot be opened or read or written, or memory runs out:         *)
(* compile() returns the code at once, without manager_dtor.               *)
EnvironmentFails ==
  /\ stage \in {"read", "reduce", "write"}
  /\ stage' = "failed"
  /\ UNCHANGED <<src, line, quiet, code, labels, jmps, jmp, found, error, bin>>

(* One iteration of the loop over the lines.  The loops inside write_to_buf*)
(* restart the counter that FOR_END checks, so only lines that write       *)
(* nothing are counted (a written line leaves it below 10).                *)
EmitLine ==
  /\ stage = "emit"
  /\ line < Len(src)
  /\ quiet < CYCLE_LIMIT
  /\ LET l == src[line + 1]
         chunks == ChunksOf(l)
     IN  /\ code' = code \o chunks
         /\ quiet' = IF chunks = << >> THEN quiet + 1 ELSE 0
         /\ labels' = IF l.op = "LABEL"
                      THEN Append(labels, [name |-> l.name, ip |-> IpPos(code)])
                      ELSE labels
         /\ jmps' = IF l.op \in LabelCommands
                    THEN Append(jmps, [name |-> l.name, ip |-> IpPos(code') - 1])
                    ELSE jmps
  /\ line' = line + 1
  /\ stage' = IF FitsBuffer(code') /\ FitsTable(jmps') THEN "emit" ELSE "overrun"
  /\ UNCHANGED <<src, jmp, found, error, bin>>

EmitDone ==
  /\ stage = "emit"
  /\ line = Len(src) \/ quiet >= CYCLE_LIMIT
  /\ stage' = "arrange"
  /\ UNCHANGED <<src, line, quiet, code, labels, jmps, jmp, found, error, bin>>

ArrangeFound ==
  /\ stage = "arrange"
  /\ jmp < Len(jmps)
  /\ LET here == jmps[jmp + 1]
         matching == Matching(here.name)
     IN  /\ matching # {}
         /\ code' = Patched(code, here.ip, labels[Chosen(matching)].ip)
  /\ found' = TRUE
  /\ jmp' = jmp + 1
  /\ UNCHANGED <<src, stage, line, quiet, labels, jmps, error, bin>>

(* A search that used the counter up leaves the loop over the jumps, too.  *)
ArrangeMissing ==
  /\ stage = "arrange"
  /\ jmp < Len(jmps)
  /\ Matching(jmps[jmp + 1].name) = {}
  /\ error' = Missed(error)
  /\ jmp' = IF Len(labels) + 1 >= CYCLE_LIMIT THEN Len(jmps) ELSE jmp + 1
  /\ UNCHANGED <<src, stage, line, quiet, code, labels, jmps, found, bin>>

ArrangeDone ==
  /\ stage = "arrange"
  /\ jmp = Len(jmps)
  /\ stage' = IF error THEN "failed" ELSE "reduce"
  /\ UNCHANGED <<src, line, quiet, code, labels, jmps, jmp, found, error, bin>>

ReduceBufferSize ==
  /\ stage = "reduce"
  /\ code' = SubSeq(Buffer, 1, Kept)
  /\ stage' = "write"
  /\ UNCHANGED <<src, line, quiet, labels, jmps, jmp, found, error, bin>>

CreateBin ==
  /\ stage = "write"
  /\ bin' = code
  /\ stage' = "done"
  /\ UNCHANGED <<src, line, quiet, code, labels, jmps, jmp, found, error>>

ANext ==
  \/ ParseHumanCode \/ EnvironmentFails
  \/ EmitLine \/ EmitDone
  \/ ArrangeFound \/ ArrangeMissing \/ ArrangeDone
  \/ ReduceBufferSize \/ CreateBin

ASpec == AInit /\ [][ANext]_avars
-------------------------------------------------------------------------------
Stages == {"read", "emit", "arrange", "reduce", "write", "done", "failed", "overrun"}

EntryType == [name : Names, ip : Nat]

(* The type invariant.                                                     *)
AssemblerTypeOK ==
  /\ src \in Sources
  /\ stage \in Stages
  /\ line \in 0..Len(src)
  /\ quiet \in 0..CYCLE_LIMIT
  /\ code \in Seq(ChunkType)
  /\ labels \in Seq(EntryType)
  /\ jmps \in Seq(EntryType)
  /\ jmp \in 0..Len(jmps)
  /\ found \in BOOLEAN /\ error \in BOOLEAN
  /\ bin \in Seq(ChunkType)

(* A file with at least one label fits the buffers cmds_process sizes by   *)
(* the number of lines: the line of the label writes nothing and so pays   *)
(* for the entry jump, its table entry and the trailing zero of snprintf.  *)
LabelledProgramFits ==
  (\E i \in DOMAIN src : src[i].op = "LABEL") => stage # "overrun"

(* No binary is made of a program without main: the jump write_main_jmp    *)
(* put in front always leads somewhere.                                    *)
EntryJumpResolved ==
  stage \in {"reduce", "write", "done"} => code[1].arg # POISON_JMP_POS

(* The reference: where line k begins, counting from 0, once the entry     *)
(* jump and the lines before it take the chunks they need.                 *)
ChunksUpTo(lines) ==
  LET upTo[i \in 0..Len(lines)] ==
        IF i = 0 THEN 1 ELSE upTo[i - 1] + Len(ChunksOf(lines[i]))
  IN  upTo

Position(k) == ChunksUpTo(src)[k - 1]

LabelLines(name) == {m \in DOMAIN src : src[m].op = "LABEL" /\ src[m].name = name}

(* No label begins with the name and goes on.                              *)
Unambiguous(name) ==
  \A m \in DOMAIN src :
    src[m].op = "LABEL" /\ <<name, src[m].name>> \in Prefixes => src[m].name = name

(* A program small enough for no loop to be left by CYCLE_LIMIT.           *)
WithinLimit == BufferChunks < CYCLE_LIMIT

(* The binary is what two passes over the source would make of it: every   *)
(* line's chunks stand where the lines before it end, every jump to a      *)
(* label that exists, and that no other begins with, leads to the first of *)
(* its lines, and no chunk of a line is cut off.                           *)
AssembledFaithfully ==
  (stage = "done" /\ WithinLimit) =>
    \A k \in DOMAIN src :
      \A c \in DOMAIN ChunksOf(src[k]) :
        LET at == Position(k) + c
               wanted == ChunksOf(src[k])[c]
               targets == LabelLines(src[k].name)
           IN  /\ at <= Len(bin)
               /\ IF src[k].op \in LabelCommands
                  THEN /\ bin[at].cmd = wanted.cmd
                       /\ (targets # {} /\ Unambiguous(src[k].name))
                            => bin[at].arg = Position(FirstOf(targets))
                  ELSE bin[at] = wanted

(* The binary ends in a VOID chunk, which is what an execution that runs   *)
(* past the last instruction finds.                                        *)
ClosedByVoid ==
  (stage = "done" /\ WithinLimit) => bin[Len(bin)] = VoidChunk

(* What the error code says, "Label does not exist error.": a program with *)
(* a jump to a label that does not exist is not assembled.                 *)
MissingLabelReported ==
  stage = "done" =>
    \A i \in DOMAIN jmps : \E j \in DOMAIN labels : labels[j].name = jmps[i].name

(* What the doc of reduce_buffer_size says, "removing trailing zeros":     *)
(* nothing else is removed, so no chunk of a line is missing.              *)
OnlyTrailingZerosRemoved ==
  stage = "done" =>
    \A k \in 1..line : \A c \in DOMAIN ChunksOf(src[k]) :
      ChunksOf(src[k])[c] # VoidChunk => Position(k) + c <= Len(bin)
===============================================================================
