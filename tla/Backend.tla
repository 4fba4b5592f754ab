------------------------------- MODULE Backend -------------------------------
(***************************************************************************)
(* Language/Backend: asmbl() walking a syntax tree and writing assembly.   *)
(*                                                                         *)
(* The functions of the backend call each other recursively; `work' is     *)
(* what their calls still have to do, the innermost first.  A step handles *)
(* its head: it visits a node, or goes on with a handler where a recursive *)
(* call has returned.                                                      *)
(*                                                                         *)
(* Allocations that fail are left out.  No other error of bkd_err_t can    *)
(* come up on the trees the parser builds: get_loc() answers NULL for an   *)
(* unknown variable without setting one.                                   *)
(***************************************************************************)
EXTENDS BTree, Bytecode, FiniteSets

CONSTANTS Trees,     \* the syntax trees assembly() is given
          MainLabel  \* the label of main

AMOUNT_OF_REGS == 4

NoName == <<"", 0>>
RetVar == <<"_ret_var", 0>>
TempExch == <<"_temp_exch", 0>>

VARIABLES root,      \* the tree
          work,      \* the pending calls
          mngrs,     \* the name table managers of the functions being written
          label_ct,
          asm_file,  \* the lines written
          bstage     \* wait, asmbl, written, undefined (a NULL name_tables was used)

bvars == <<root, work, mngrs, label_ct, asm_file, bstage>>

-------------------------------------------------------------------------------
(* Lines of assembly, as module Assembler reads them.                      *)
Asm(op, mode, arg, name) == [op |-> op, mode |-> mode, arg |-> arg, name |-> name]

NoArg(op) == Asm(op, "NONE", 0, NoName)
Literal(v) == Asm("PUSH", "IMM", v, NoName)
Jump(op, name) == Asm(op, "NONE", 0, name)
LabelLine(name) == Asm("LABEL", "NONE", 0, name)

WhileLabel(n) == <<"while", n>>
BreakLabel(n) == <<"break", n>>

(* Faulty variant: the counter is not moved.                               *)
SameLabel(n) == n

NextLabel(n) == n + 1

(* Faulty variant: one register too many.                                  *)
PlaceOffByOne(n) ==
  IF n > AMOUNT_OF_REGS
  THEN [mode |-> "RAM_IMM", arg |-> n - AMOUNT_OF_REGS]
  ELSE [mode |-> "REG", arg |-> n]

(* Where location number n is: one of the registers, then the RAM.         *)
Place(n) ==
  IF n >= AMOUNT_OF_REGS
  THEN [mode |-> "RAM_IMM", arg |-> n - AMOUNT_OF_REGS]
  ELSE [mode |-> "REG", arg |-> n]

(* "(null)", whose second letter the assembler takes for a register.       *)
NullPlace == [mode |-> "REG", arg |-> 13]

PushFrom(place) == Asm("PUSH", place.mode, place.arg, NoName)
PopInto(place) == Asm("POP", place.mode, place.arg, NoName)

(* The commands for the operations; four of them are none of the           *)
(* processor's, and the assembler skips their lines.                       *)
OpLine(op) ==
  NoArg(IF op \in {"ADD", "SUB", "MUL", "DIV", "SQRT"} THEN op ELSE "UNKNOWN")

(* get_cond_type                                                           *)
CondJump ==
  [ABOVE |-> "JBE", BELOW |-> "JAE", ABOVE_EQUAL |-> "JB", BELOW_EQUAL |-> "JA",
   EQUAL |-> "JNE", NOT_EQUAL |-> "JNE"]
-------------------------------------------------------------------------------
(* Name tables: a sequence of tables, one for each open scope, each a      *)
(* sequence of cells.  No tables at all stand for name_tables = NULL.      *)
Cell(name, loc) == [name |-> name, loc |-> loc]

Manager(tables, fresh) == [tables |-> tables, in_func_start |-> fresh]

NoTables == Manager(<< >>, FALSE)

CellsUpTo(ts, lvl) == UNION {{<<k, c>> : c \in 1..Len(ts[k])} : k \in 1..lvl}

CellsOf(ts) == CellsUpTo(ts, Len(ts))

(* get_loc looks from the innermost scope outwards, in each for the first  *)
(* cell of the name.                                                       *)
Named(ts, var) == {p \in CellsOf(ts) : ts[p[1]][p[2]].name = var}

Nearest(ts, var) ==
  LET p == CHOOSE p \in Named(ts, var) :
             \A q \in Named(ts, var) : q[1] < p[1] \/ (q[1] = p[1] /\ p[2] <= q[2])
  IN  ts[p[1]][p[2]]

(* Faulty variant: a new variable is numbered within its own scope.        *)
ScopeSize(ts) == Len(ts[Len(ts)])

OverallSize(ts) == Cardinality(CellsOf(ts))

InitVar(ts, var) ==
  [ts EXCEPT ![Len(ts)] = Append(@, Cell(var, OverallSize(ts)))]

(* get_loc with init_flag: the tables and the place it leaves.             *)
TablesWith(ts, var) == IF Named(ts, var) = {} THEN InitVar(ts, var) ELSE ts

PlaceWith(ts, var) ==
  Place(IF Named(ts, var) = {} THEN OverallSize(ts) ELSE Nearest(ts, var).loc)

(* get_loc without.                                                        *)
PlaceOf(ts, var) ==
  IF Named(ts, var) = {} THEN NullPlace ELSE Place(Nearest(ts, var).loc)

(* push_all goes through the scopes from the innermost.                    *)
PushAll(ts) ==
  LET from[l \in 0..Len(ts)] ==
        IF l = 0 THEN << >>
        ELSE [c \in 1..Len(ts[l]) |-> PushFrom(Place(ts[l][c].loc))] \o from[l - 1]
  IN  from[Len(ts)]

(* Faulty variant: the variables are popped in the order of the pushes.    *)
PopAllForwards(ts) ==
  LET kept(l) == IF l = 1 THEN 1 ELSE 0
      upTo[l \in 0..Len(ts)] ==
        IF l = 0 THEN << >>
        ELSE upTo[l - 1] \o
             [i \in 1..(Len(ts[l]) - kept(l)) |-> PopInto(Place(ts[l][i + kept(l)].loc))]
  IN  upTo[Len(ts)]

(* pop_all goes through them from the outermost, whose first cell stays on *)
(* the stack.                                                              *)
PopAll(ts) ==
  LET kept(l) == IF l = 1 THEN 1 ELSE 0
      upTo[l \in 0..Len(ts)] ==
        IF l = 0 THEN << >>
        ELSE upTo[l - 1] \o
             [i \in 1..(Len(ts[l]) - kept(l)) |->
                PopInto(Place(ts[l][Len(ts[l]) + 1 - i].loc))]
  IN  upTo[Len(ts)]

-------------------------------------------------------------------------------
(* What a call has still to do.                                            *)
Asmbl(node) == IF node = NoNode THEN << >> ELSE << [do |-> "asmbl", node |-> node] >>

Write(lines) == << [do |-> "write", lines |-> lines] >>

PopVar(var) == << [do |-> "pop_var", var |-> var] >>

Todo(what) == << [do |-> what] >>

Arguments(func, comma, counter) ==
  << [do |-> "arguments", func |-> func, comma |-> comma, counter |-> counter] >>

Parameters(func, comma, counter) ==
  << [do |-> "parameters", func |-> func, comma |-> comma, counter |-> counter] >>

Now(what) ==
  /\ bstage = "asmbl"
  /\ work # << >>
  /\ Head(work).do = what

Visiting(types) == Now("asmbl") /\ Head(work).node.type \in types

Visited == Head(work).node

(* The manager the current call was passed, and its tables.                *)
Tables == mngrs[1].tables

WithTables(ts) == [mngrs EXCEPT ![1].tables = ts]

HasTables == Tables # << >>

Emit(lines) == asm_file' = asm_file \o lines

GoOn(calls) == work' = calls \o Tail(work)
-------------------------------------------------------------------------------
(* assembly() begins with a zeroed manager, which has no tables.           *)
Begin(tree) ==
  /\ root = tree
  /\ work = Asmbl(tree)
  /\ mngrs = << NoTables >>
  /\ label_ct = 0
  /\ asm_file = << >>
  /\ bstage = "asmbl"

BInit == \E tree \in Trees : Begin(tree)

(* Faulty variant: no scope but the first gets tables of its own.          *)
NeverUpgraded(m) == m

(* upgrade_n_table: the first scope of a function has its tables already.  *)
Upgraded(m) ==
  IF m.in_func_start THEN [m EXCEPT !.in_func_start = FALSE]
  ELSE [m EXCEPT !.tables = Append(@, << >>)]

(* downgrade_n_table: the table of level 0 is destroyed with all.          *)
Downgraded(m) ==
  IF Len(m.tables) <= 1 THEN [m EXCEPT !.tables = << >>]
  ELSE [m EXCEPT !.tables = SubSeq(@, 1, Len(@) - 1)]

Children(node) == Asmbl(node.left) \o Asmbl(node.right)

ScopeStart ==
  /\ Visiting({"SCOPE_START"}) /\ HasTables
  /\ mngrs' = [mngrs EXCEPT ![1] = Upgraded(@)]
  /\ GoOn(Children(Visited))
  /\ UNCHANGED <<root, label_ct, asm_file, bstage>>

ScopeEnd ==
  /\ Visiting({"SCOPE_END"})
  /\ mngrs' = [mngrs EXCEPT ![1] = Downgraded(@)]
  /\ GoOn(Children(Visited))
  /\ UNCHANGED <<root, label_ct, asm_file, bstage>>

Semicolon ==
  /\ Visiting({"SEMICOLON"})
  /\ GoOn(Children(Visited))
  /\ UNCHANGED <<root, mngrs, label_ct, asm_file, bstage>>

WriteLines ==
  /\ Now("write")
  /\ Emit(Head(work).lines)
  /\ GoOn(<< >>)
  /\ UNCHANGED <<root, mngrs, label_ct, bstage>>

WriteNum ==
  /\ Visiting({"NUM"})
  /\ Emit(<< Literal(Visited.value) >>)
  /\ GoOn(<< >>)
  /\ UNCHANGED <<root, mngrs, label_ct, bstage>>

WriteVar ==
  /\ Visiting({"VAR"}) /\ HasTables
  /\ Emit(<< PushFrom(PlaceOf(Tables, Visited.value)) >>)
  /\ GoOn(<< >>)
  /\ UNCHANGED <<root, mngrs, label_ct, bstage>>

(* The pop into a variable that ends an assignment and alalmash: the       *)
(* variable is looked up, and made, when its value has been written.       *)
WritePopVar ==
  /\ Now("pop_var") /\ HasTables
  /\ LET var == Head(work).var
     IN  /\ Emit(<< PopInto(PlaceWith(Tables, var)) >>)
         /\ mngrs' = WithTables(TablesWith(Tables, var))
  /\ GoOn(<< >>)
  /\ UNCHANGED <<root, label_ct, bstage>>

WriteOp ==
  /\ Visiting({"OP", "UNR_OP"})
  /\ IF Visited.value = "ASS"
     THEN GoOn(Asmbl(Visited.right) \o PopVar(Visited.left.value))
     ELSE GoOn(Children(Visited) \o Write(<< OpLine(Visited.value) >>))
  /\ UNCHANGED <<root, mngrs, label_ct, asm_file, bstage>>

WriteGetvar ==
  /\ Visiting({"STD_FUNC"}) /\ Visited.value = "GETVAR"
  /\ Emit(<< NoArg("IN") >>)
  /\ GoOn(PopVar(Visited.right.value))
  /\ UNCHANGED <<root, mngrs, label_ct, bstage>>

WritePutexpr ==
  /\ Visiting({"STD_FUNC"}) /\ Visited.value = "PUTEXPR"
  /\ GoOn(Asmbl(Visited.right) \o Write(<< NoArg("OUT") >>))
  /\ UNCHANGED <<root, mngrs, label_ct, asm_file, bstage>>

(* A comparison leaves the sum of 0, and of 1 if its jump is not taken.    *)
WriteCondExpr ==
  /\ Visiting(Conditions)
  /\ Emit(<< Literal(0) >>)
  /\ GoOn(Asmbl(Visited.right) \o Asmbl(Visited.left)
            \o << [do |-> "cond_end", jump |-> CondJump[Visited.type]] >>)
  /\ UNCHANGED <<root, mngrs, label_ct, bstage>>

WriteCondEnd ==
  /\ Now("cond_end")
  /\ Emit(<< Jump(Head(work).jump, BreakLabel(label_ct)), Literal(1), NoArg("ADD"),
             LabelLine(BreakLabel(label_ct)), Literal(0), NoArg("ADD") >>)
  /\ label_ct' = NextLabel(label_ct)
  /\ GoOn(<< >>)
  /\ UNCHANGED <<root, mngrs, bstage>>

WriteWhile ==
  /\ Visiting({"WHILE"})
  /\ Emit(<< LabelLine(WhileLabel(label_ct)) >>)
  /\ label_ct' = NextLabel(label_ct)
  /\ GoOn(Asmbl(Visited.left)
            \o Write(<< Literal(0), Jump("JE", BreakLabel(label_ct)) >>)
            \o Asmbl(Visited.right)
            \o Write(<< Jump("JMP", WhileLabel(label_ct)), LabelLine(BreakLabel(label_ct)) >>))
  /\ UNCHANGED <<root, mngrs, bstage>>

(* write_if reads label_ct for its jump, and again for its label.          *)
WriteIf ==
  /\ Visiting({"IF"})
  /\ GoOn(Asmbl(Visited.left) \o Todo("if_test") \o Asmbl(Visited.right) \o Todo("if_end"))
  /\ UNCHANGED <<root, mngrs, label_ct, asm_file, bstage>>

WriteIfTest ==
  /\ Now("if_test")
  /\ Emit(<< Literal(0), Jump("JE", BreakLabel(label_ct)) >>)
  /\ GoOn(<< >>)
  /\ UNCHANGED <<root, mngrs, label_ct, bstage>>

WriteIfEnd ==
  /\ Now("if_end")
  /\ Emit(<< LabelLine(BreakLabel(label_ct)) >>)
  /\ label_ct' = NextLabel(label_ct)
  /\ GoOn(<< >>)
  /\ UNCHANGED <<root, mngrs, bstage>>

WriteFunc ==
  /\ Visiting({"FUNC", "CMD_FUNC"}) /\ HasTables
  /\ Emit(PushAll(Tables))
  /\ GoOn(Arguments(Visited, Visited.left, 0))
  /\ UNCHANGED <<root, mngrs, label_ct, bstage>>

WriteArgument ==
  /\ Now("arguments") /\ Head(work).comma # NoNode
  /\ LET call == Head(work)
     IN  GoOn(Asmbl(call.comma.left)
                \o Arguments(call.func, call.comma.right, call.counter + 1))
  /\ UNCHANGED <<root, mngrs, label_ct, asm_file, bstage>>

(* The rest of write_func; save_ret_reg brings the result of a call above  *)
(* the value of rax that push_all saved, or drops that value.              *)
WriteCall ==
  /\ Now("arguments") /\ Head(work).comma = NoNode /\ HasTables
  /\ LET func == Head(work).func
         args == Head(work).counter
         empty == Tables = << << >> >>
         exch == PlaceWith(Tables, TempExch)
         saved == IF func.type = "FUNC"
                  THEN << PopInto(exch), PushFrom(Place(0)), PushFrom(exch), PopInto(Place(0)) >>
                  ELSE << PopInto(Place(0)) >>
         direct == IF func.type = "FUNC" THEN << PushFrom(Place(0)) >> ELSE << >>
     IN  /\ Emit([i \in 1..args |-> PopInto(Place(args + 1 - i))]
                   \o << Jump("CALL", func.value) >>
                   \o PopAll(Tables)
                   \o (IF empty THEN direct ELSE saved))
         /\ mngrs' = IF ~empty /\ func.type = "FUNC"
                     THEN WithTables(TablesWith(Tables, TempExch)) ELSE mngrs
  /\ GoOn(<< >>)
  /\ UNCHANGED <<root, label_ct, bstage>>

(* A function and main have managers of their own, local to the call.      *)
WriteFuncDecl ==
  /\ Visiting({"FUNC_DECL"})
  /\ mngrs' = << Manager(<< << Cell(RetVar, 0) >> >>, TRUE) >> \o mngrs
  /\ GoOn(Parameters(Visited, Visited.left, 1))
  /\ UNCHANGED <<root, label_ct, asm_file, bstage>>

WriteParameter ==
  /\ Now("parameters") /\ Head(work).comma # NoNode
  /\ LET decl == Head(work)
     IN  /\ mngrs' = WithTables([Tables EXCEPT ![1] =
                        Append(@, Cell(decl.comma.left.value, decl.counter))])
         /\ GoOn(Parameters(decl.func, decl.comma.right, decl.counter + 1))
  /\ UNCHANGED <<root, label_ct, asm_file, bstage>>

WriteBody ==
  /\ Now("parameters") /\ Head(work).comma = NoNode
  /\ LET func == Head(work).func
     IN  /\ Emit(<< LabelLine(func.value) >>)
         /\ GoOn(Asmbl(func.right) \o Write(<< NoArg("RET") >>) \o Todo("leave"))
  /\ UNCHANGED <<root, mngrs, label_ct, bstage>>

WriteMain ==
  /\ Visiting({"MAIN"})
  /\ mngrs' = << Manager(<< << >> >>, TRUE) >> \o mngrs
  /\ Emit(<< LabelLine(MainLabel) >>)
  /\ GoOn(Asmbl(Visited.right) \o Todo("leave"))
  /\ UNCHANGED <<root, label_ct, bstage>>

Leave ==
  /\ Now("leave")
  /\ mngrs' = SubSeq(mngrs, 2, Len(mngrs))
  /\ GoOn(<< >>)
  /\ UNCHANGED <<root, label_ct, asm_file, bstage>>

WriteReturn ==
  /\ Visiting({"RETURN"})
  /\ GoOn(Asmbl(Visited.right) \o Write(<< PopInto(Place(0)), NoArg("RET") >>))
  /\ UNCHANGED <<root, mngrs, label_ct, asm_file, bstage>>

(* Without tables a look-up reads through NULL, and a new level leaves the *)
(* tables below it uninitialised: what follows is undefined.               *)
UseWithoutTables ==
  /\ ~HasTables
  /\ \/ Visiting({"SCOPE_START", "VAR", "FUNC", "CMD_FUNC"})
     \/ Now("pop_var")
     \/ Now("arguments") /\ Head(work).comma = NoNode
  /\ bstage' = "undefined"
  /\ UNCHANGED <<root, work, mngrs, label_ct, asm_file>>

Assembled ==
  /\ bstage = "asmbl"
  /\ work = << >>
  /\ Emit(<< NoArg("HLT") >>)
  /\ bstage' = "written"
  /\ UNCHANGED <<root, work, mngrs, label_ct>>

BNext ==
  \/ ScopeStart \/ ScopeEnd \/ Semicolon \/ WriteLines
  \/ WriteNum \/ WriteVar \/ WritePopVar \/ WriteOp
  \/ WriteGetvar \/ WritePutexpr \/ WriteCondExpr \/ WriteCondEnd
  \/ WriteWhile \/ WriteIf \/ WriteIfTest \/ WriteIfEnd
  \/ WriteFunc \/ WriteArgument \/ WriteCall
  \/ WriteFuncDecl \/ WriteParameter \/ WriteBody \/ WriteMain \/ Leave
  \/ WriteReturn \/ UseWithoutTables \/ Assembled

BSpec == BInit /\ [][BNext]_bvars
-------------------------------------------------------------------------------
CellType == [name : STRING \X Nat, loc : Nat]

(* The lines, and the places that they name: one of the registers, a RAM   *)
(* cell, or the one "(null)" is taken for.                                 *)
AsmLine ==
  [op : Commands \cup {"LABEL", "UNKNOWN"}, mode : Modes, arg : Int, name : STRING \X Nat]

GoodLine(l) ==
  /\ l \in AsmLine
  /\ l.mode \in {"NONE", "IMM", "REG", "RAM_IMM"}
  /\ l.mode = "REG" => l.arg \in 0..(AMOUNT_OF_REGS - 1) \cup {NullPlace.arg}
  /\ l.mode = "RAM_IMM" => l.arg \in Nat

(* The type invariant.                                                     *)
BackendTypeOK ==
  /\ mngrs # << >>
  /\ \A m \in DOMAIN mngrs :
       /\ mngrs[m].in_func_start \in BOOLEAN
       /\ \A l \in DOMAIN mngrs[m].tables : \A c \in DOMAIN mngrs[m].tables[l] :
            mngrs[m].tables[l][c] \in CellType
  /\ label_ct \in Nat
  /\ \A i \in DOMAIN asm_file : GoodLine(asm_file[i])
  /\ bstage \in {"wait", "asmbl", "written", "undefined"}

(* No two variables that are visible together share a register or a RAM    *)
(* cell, whatever scopes were opened and closed before: get_loc numbers a  *)
(* new variable by how many there are in all the open scopes.              *)
NoSharedLocation ==
  \A m \in DOMAIN mngrs :
    LET ts == mngrs[m].tables
    IN  \A p, q \in CellsOf(ts) : p # q => ts[p[1]][p[2]].loc # ts[q[1]][q[2]].loc

(* The tables of a function are there until its whole body is written,     *)
(* although the parser moves the end of each scope into the command behind *)
(* it: the level 0 table is destroyed, if ever, with the global manager's. *)
OpenUntilWritten ==
  \A m \in 1..(Len(mngrs) - 1) : mngrs[m].tables # << >>

(* However whiles, ifs and comparisons are nested: the counter they share  *)
(* gives every jump that is written one label line to go to.               *)
EveryJumpHasOneLabel ==
  bstage = "written" =>
    \A j \in DOMAIN asm_file :
      asm_file[j].op \in LabelCommands =>
        \E l \in DOMAIN asm_file :
          /\ asm_file[l].op = "LABEL" /\ asm_file[l].name = asm_file[j].name
          /\ \A k \in DOMAIN asm_file :
               asm_file[k].op = "LABEL" /\ asm_file[k].name = asm_file[j].name => k = l
===============================================================================
