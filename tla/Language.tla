------------------------------- MODULE Language -------------------------------
(***************************************************************************)
(* The whole chain of test/main.cpp behind the parser: the tree it has     *)
(* built is simplified by the midend and assembled by the backend,         *)
(* compile() reads the file it wrote, and execute() runs the binary.       *)
(***************************************************************************)
EXTENDS Toolchain, Backend, FileParser

CONSTANTS Programs,           \* programs
          Parsed,             \* the tree the parser makes of each
          Meaning,            \* what each may print
          Computed(_, _, _),  \* the arithmetic of the midend
          NotANumber

VARIABLES program, expr, tree, calls, change_flag, mid_error, mstage

Mid == INSTANCE Midend WITH
         Exprs <- {}, Numbers <- Int, Zero <- 0, One <- 1, Positive <- Nat \ {0}

midend == <<expr, tree, calls, change_flag, mid_error, mstage>>

lvars == <<program, midend, bvars, tvars>>

LInit ==
  /\ program \in Programs
  /\ Mid!BeginWith(Parsed[program])
  /\ root = NoNode /\ work = << >>
  /\ mngrs = << NoTables >>
  /\ label_ct = 0 /\ asm_file = << >>
  /\ bstage = "wait"
  /\ src = << >>
  /\ stage = "wait"
  /\ line = 0 /\ quiet = 0
  /\ code = << >> /\ labels = << >> /\ jmps = << >>
  /\ jmp = 0
  /\ found = FALSE /\ error = FALSE
  /\ bin = << >>
  /\ phase = "ready"
  /\ carriage = 0
  /\ user = Machine!EmptyStack
  /\ ret = Machine!EmptyStack
  /\ regs = [r \in Machine!Registers |-> 0]
  /\ ram = [x \in Machine!Addresses |-> 0]
  /\ out = << >>

Optimize == Mid!MNext /\ UNCHANGED <<program, bvars, tvars>>

(* Only a tree that optimize() has no error for is assembled.              *)
CallAssembly ==
  /\ mstage = "optimized" /\ mid_error = "MID_ALL_GOOD"
  /\ bstage = "wait"
  /\ root' = tree
  /\ work' = Asmbl(tree)
  /\ bstage' = "asmbl"
  /\ UNCHANGED <<program, midend, mngrs, label_ct, asm_file, tvars>>

Assembly == BNext /\ UNCHANGED <<program, midend, tvars>>

(* A line of assembly is one symbol of the text.                           *)
Written(lines) ==
  [i \in 1..(2 * Len(lines)) |-> IF i % 2 = 1 THEN lines[(i + 1) \div 2] ELSE Newline]

(* The lines that begin where the pointers point to.                       *)
LinesAt(buf, starts) == [k \in DOMAIN starts |-> buf[starts[k]]]

(* parse_human_code: compile() reads the file assembly() has closed.       *)
OpenAssembly ==
  /\ bstage = "written" /\ stage = "wait"
  /\ LET text == Written(asm_file)
     IN  IF PointersFit(text)
         THEN src' = LinesAt(text, ptr_arranger(text)) /\ stage' = "read"
         ELSE stage' = "overrun" /\ UNCHANGED src
  /\ UNCHANGED <<program, midend, bvars, line, quiet, code, labels, jmps, jmp, found, error,
                 bin, machine>>

CompileAndExecute == TNext /\ UNCHANGED <<program, midend, bvars>>

LNext == Optimize \/ CallAssembly \/ Assembly \/ OpenAssembly \/ CompileAndExecute

LSpec == LInit /\ [][LNext]_lvars /\ WF_lvars(LNext)
-------------------------------------------------------------------------------
(* The machine prints what the source program means: the values of all its *)
(* mismatched pushes and pops, label numbers, scopes and places of         *)
(* variables agree from the parser to the machine.                         *)
PrintsWhatItMeans ==
  phase = "halted" => out \in Meaning[program]

(* The assembler sees the lines the backend wrote, all of them: the file   *)
(* is cut into lines where they were ended, and none is left out.          *)
EveryLineIsRead ==
  stage \notin {"wait", "failed"} => src = asm_file

(* Every command leaves the stack as it found it, and every call returns:  *)
(* nothing is left when the program halts.                                 *)
StacksEmptyAtHalt ==
  phase = "halted" => user.elems = << >> /\ ret.elems = << >>

(* A program that comes to an end by its meaning is simplified and         *)
(* compiled, unless files or memory fail, and comes to its hlt: no jump,   *)
(* call or return of the compiled program leads it elsewhere.              *)
ProgramsHalt ==
  <>(bstage = "undefined" \/ stage = "failed" \/ phase \in {"failed", "halted"})
===============================================================================
