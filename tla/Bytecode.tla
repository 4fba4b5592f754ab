------------------------------- MODULE Bytecode -------------------------------
(***************************************************************************)
(* The machine code the assembler writes and the SPU reads: a sequence of  *)
(* chunks of 8 bytes.  An instruction is one chunk (command byte, mode     *)
(* byte, a 4-byte argument), except that a push of a literal and a draw    *)
(* are followed by a chunk of data.                                        *)
(*                                                                         *)
(* Numbers are whole here; the data chunk of such a number begins with a   *)
(* zero byte, so that it reads as VOID when it is fetched as a command.    *)
(***************************************************************************)
EXTENDS Integers, Sequences

Chunk(cmd, mode, arg) == [cmd |-> cmd, mode |-> mode, arg |-> arg]

VoidChunk == Chunk("VOID", "NONE", 0)

(* All the bits of 0.0 are zero.                                           *)
DataChunk(v) == IF v = 0 THEN VoidChunk ELSE Chunk("DATA", "NONE", v)

LabelCommands == {"JMP", "JAE", "JA", "JBE", "JB", "JE", "JNE", "CALL"}
PlainCommands == {"IN", "ADD", "SUB", "MUL", "DIV", "OUT", "RET", "HLT", "SQRT"}
Commands == LabelCommands \cup PlainCommands \cup {"PUSH", "POP", "DRAW"}

Modes == {"NONE", "IMM", "REG", "RAM", "RAM_IMM", "RAM_REG"}

(* What is left in a jump no label was found for: ~0 in an unsigned int.   *)
POISON_JMP_POS == -1

(* The argument of a jump is unsigned.                                     *)
ChunkType ==
  {c \in [cmd : Commands \cup {"VOID", "DATA"}, mode : Modes, arg : Int] :
     c.cmd \in LabelCommands => c.arg \in Nat \cup {POISON_JMP_POS}}

(* How many chunks an instruction takes.                                   *)
Width(cmd, mode) ==
  IF cmd = "DRAW" \/ (cmd = "PUSH" /\ mode = "IMM") THEN 2 ELSE 1
===============================================================================
