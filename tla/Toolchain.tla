------------------------------ MODULE Toolchain ------------------------------
(***************************************************************************)
(* compile() followed by execute(), as Language_test/main.cpp calls them:  *)
(* the machine runs the binary the assembler wrote, and only if compile()  *)
(* reported no error.                                                      *)
(***************************************************************************)
EXTENDS Assembler

CONSTANTS Entered, Poison, RegsAmount, RamSize, MaxDepth, MaxNumber

VARIABLES phase, carriage, user, ret, regs, ram, out

Machine == INSTANCE SPU WITH Binaries <- Seq(ChunkType)

machine == <<phase, carriage, user, ret, regs, ram, out>>

tvars == <<avars, machine>>

Compiled == <<src, stage, line, quiet, code, labels, jmps, jmp, found, error>>
-------------------------------------------------------------------------------
TInit ==
  /\ AInit
  /\ phase = "ready"
  /\ carriage = 0
  /\ user = Machine!EmptyStack
  /\ ret = Machine!EmptyStack
  /\ regs = [r \in Machine!Registers |-> 0]
  /\ ram = [x \in Machine!Addresses |-> 0]
  /\ out = << >>

Compile == ANext /\ UNCHANGED machine

Execute == stage = "done" /\ Machine!Next /\ UNCHANGED Compiled

TNext == Compile \/ Execute

(* Both are calls of one thread, which runs until they return.             *)
TSpec == TInit /\ [][TNext]_tvars /\ WF_tvars(TNext)
-------------------------------------------------------------------------------
Running == phase = "running" /\ carriage < Len(bin)

(* Where instructions begin: decoding from the start, chunk by chunk.      *)
InstructionStarts ==
  LET starts[i \in 1..Len(bin)] ==
        \/ i = 1
        \/ i > 1 /\ starts[i - 1] /\ Width(bin[i - 1].cmd, bin[i - 1].mode) = 1
        \/ i > 2 /\ starts[i - 2] /\ Width(bin[i - 2].cmd, bin[i - 2].mode) = 2
  IN  {i \in 1..Len(bin) : starts[i]}

(* The three bytes of a jump have room for every place of the buffer.      *)
Addressable == BufferChunks <= ThreeBytes

(* The machine never takes an argument for a command: wherever jumps,      *)
(* calls, returns (on an empty stack, too) and draws lead, the assembler   *)
(* and the macros of cmd_definitions.h agree on how long each instruction  *)
(* is and on what a label and a return address count.                      *)
FetchesInstructions ==
  (Running /\ Addressable) => carriage + 1 \in InstructionStarts

(* process() leaves its loop, and releases the machine and the byte code,  *)
(* only when a jump's label was missing or the last line is the push or    *)
(* draw of a zero: every other program is left by hlt or an error, or      *)
(* never, for it spins on the VOID chunk the assembler put at its end.     *)
UnresolvedJump ==
  \E i \in InstructionStarts :
    bin[i].cmd \in LabelCommands /\ bin[i].arg = POISON_JMP_POS

EndsInZeroData ==
  \E i \in InstructionStarts :
    i = Len(bin) - 1 /\ Width(bin[i].cmd, bin[i].mode) = 2

EndsOnlyOffTheCode ==
  (phase = "ended" /\ WithinLimit) => UnresolvedJump \/ EndsInZeroData

(* The machine returns to where it was called from: between a call and its *)
(* ret only the top of the return stack comes and goes, and the ret leads  *)
(* to the line behind the call.                                            *)
CallLines ==
  {k \in DOMAIN src : src[k].op = "CALL"}

ReturnsToTheNextLine ==
  [][(stage = "done" /\ WithinLimit /\ ret' # ret /\ Len(ret'.elems) < Len(ret.elems))
       => \E k \in CallLines : carriage' = Position(k) + 1]_tvars

(* A program whose jumps all lead to a line further down, and which has no *)
(* call and no ret, comes to an end or to a VOID command, whatever it      *)
(* computes, whatever is typed and whichever way its conditions go.        *)
Forward ==
  /\ \A k \in DOMAIN src :
       src[k].op \in LabelCommands \cup {"RET"} =>
         /\ src[k].op \notin {"CALL", "RET"}
         /\ \A m \in 1..(k - 1) :
              ~ (src[m].op = "LABEL" /\ <<src[k].name, src[m].name>> \in Prefixes)

Stopped ==
  \/ stage \in {"failed", "overrun"}
  \/ phase \notin {"ready", "running"}
  \/ Machine!Spinning

ForwardProgramsStop == Forward ~> Stopped
===============================================================================
