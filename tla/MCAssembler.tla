----------------------------- MODULE MCAssembler -----------------------------
(***************************************************************************)
(* Assembly files for TLC: all files of up to three lines of every kind,   *)
(* the files of four lines that matter for labels, and longer ones whose   *)
(* buffers exceed the scaled CYCLE_LIMIT.  The jump target "f" is a prefix *)
(* of the label "fact".                                                    *)
(***************************************************************************)
EXTENDS Assembler

MCNames == {"main", "f", "fact"}
MCPrefixes == {<<n, n>> : n \in MCNames} \cup {<<"f", "fact">>}

Line(op, mode, arg, name) == [op |-> op, mode |-> mode, arg |-> arg, name |-> name]

LabelLine(n) == Line("LABEL", "NONE", 0, n)
JumpLine(c, n) == Line(c, "NONE", 0, n)
Literal(v) == Line("PUSH", "IMM", v, "main")
NoArg(c) == Line(c, "NONE", 0, "main")

Labelling ==
  {LabelLine(n) : n \in MCNames} \cup {JumpLine("JMP", "f"), JumpLine("CALL", "fact")}

AnyLine ==
  Labelling \cup {JumpLine("JE", "main"), Literal(0), Literal(1),
                  Line("POP", "REG", 0, "main"), Line("PUSH", "RAM_IMM", 1, "main"),
                  Line("DRAW", "NONE", 1, "main"), NoArg("HLT"), NoArg("UNKNOWN")}

(* The literal 0 is what reduce_buffer_size takes for the end.             *)
Long ==
  {<< LabelLine("main") >> \o body :
     body \in [1..4 -> {Literal(0), Literal(1), NoArg("HLT"), JumpLine("JMP", "f"), LabelLine("f")}]}

Quiet == << LabelLine("main") >> \o [i \in 1..9 |-> LabelLine("fact")]
         \o << LabelLine("f"), NoArg("HLT") >>

MCSources ==
  UNION {[1..n -> AnyLine] : n \in 0..3}
  \cup {<< LabelLine("main") >> \o body : body \in [1..3 -> AnyLine]}
  \cup [1..4 -> Labelling]
  \cup Long
  \cup {Quiet, << JumpLine("JMP", "f") >> \o Quiet}
===============================================================================
