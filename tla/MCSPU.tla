-------------------------------- MODULE MCSPU --------------------------------
(***************************************************************************)
(* Byte codes for TLC: every sequence of at most two chunks of any kind,   *)
(* well formed or not, and every sequence of four chunks of those that     *)
(* move the carriage by calls, returns and jumps.                          *)
(***************************************************************************)
EXTENDS SPU

Plain == {Chunk(c, "NONE", 0) : c \in PlainCommands \cup {"DRAW", "PUSH", "POP"}}
Jumping == {Chunk(c, "NONE", t) : c \in LabelCommands, t \in {0, POISON_JMP_POS}}
Moving == {Chunk(c, m, x) : c \in {"PUSH", "POP"},
                            m \in {"REG", "RAM_IMM", "RAM_REG"}, x \in {0, 2}}
Literals == {Chunk("PUSH", "IMM", 0), Chunk("PUSH", "RAM", 0)}
Data == {VoidChunk, DataChunk(1), DataChunk(Poison)}

AnyChunk == Plain \cup Jumping \cup Moving \cup Literals \cup Data

Calling == {Chunk("CALL", "NONE", 0), Chunk("CALL", "NONE", 2),
            Chunk("RET", "NONE", 0), Chunk("JMP", "NONE", 1),
            Chunk("HLT", "NONE", 0), Chunk("PUSH", "IMM", 0), DataChunk(1)}

Poisoning == << Chunk("PUSH", "IMM", 0), DataChunk(Poison) >>

Storing == << Chunk("PUSH", "REG", 0), Chunk("ADD", "NONE", 0),
              Chunk("POP", "REG", 0), Chunk("POP", "RAM_IMM", 1) >>

MCBinaries ==
  UNION {[1..n -> AnyChunk] : n \in 1..2}
  \cup [1..4 -> Calling]
  \cup {<< Chunk("IN", "NONE", 0), Chunk("POP", "REG", 0) >> \o Poisoning \o Storing}

MCEntered == {1, Poison}
===============================================================================
