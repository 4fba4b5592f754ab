----------------------------- MODULE MCToolchain -----------------------------
(***************************************************************************)
(* Programs for TLC: after ":main", all bodies of up to three lines and    *)
(* those of four lines that are about jumps, calls and literals; and       *)
(* functions of one or two lines in front of main.                         *)
(***************************************************************************)
EXTENDS Toolchain

MCNames == {"main", "f", "g"}
MCPrefixes == {<<n, n>> : n \in MCNames}
MCEntered == {1}

Line(op, mode, arg, name) == [op |-> op, mode |-> mode, arg |-> arg, name |-> name]

LabelLine(n) == Line("LABEL", "NONE", 0, n)
JumpLine(c, n) == Line(c, "NONE", 0, n)
Literal(v) == Line("PUSH", "IMM", v, "main")
NoArg(c) == Line(c, "NONE", 0, "main")

Moving ==
  {LabelLine("f"), JumpLine("JMP", "f"), JumpLine("CALL", "f"), JumpLine("JE", "main"),
   NoArg("RET"), NoArg("HLT"), Literal(0), Literal(1)}

AnyLine ==
  Moving \cup {LabelLine("g"), JumpLine("JA", "g"), Line("POP", "REG", 0, "main"),
               NoArg("OUT"), NoArg("UNKNOWN"), Line("DRAW", "NONE", 1, "main")}

MCSources ==
  {<< LabelLine("main") >> \o body : body \in UNION {[1..n -> AnyLine] : n \in 0..3}}
  \cup {body \o << LabelLine("main"), JumpLine("CALL", "f"), NoArg("HLT") >> :
          body \in [1..2 -> AnyLine]}
  \cup {<< LabelLine("main") >> \o body : body \in [1..4 -> Moving]}
===============================================================================
