---------------------------- MODULE Simplification ----------------------------
(***************************************************************************)
(* Language/Midend: what simplify() does to one node whose children are    *)
(* done.  fold_consts() puts a number in the place of a node of two, and   *)
(* solve_trivial_expr() looks for what adds, multiplies or raises by 0 or  *)
(* 1.  Allocations that fail are left out.                                 *)
(***************************************************************************)
EXTENDS BTree

CONSTANTS Computed(_, _, _),  \* what C's doubles and pow() make of two numbers
          Numbers,            \* the values of expressions
          Zero, One,          \* the numbers 0 and 1
          Positive,           \* the numbers above 0
          NotANumber          \* NAN

(* What an expression without a value has for one.                         *)
Undefined == <<"undefined">>

(* The arithmetic of finite doubles, as far as 0 and 1 are concerned.      *)
ASSUME SimplificationConstants ==
  /\ Zero \in Numbers /\ One \in Numbers /\ NotANumber \notin Numbers
  /\ Undefined \notin Numbers
  /\ Positive \subseteq Numbers \ {Zero}
  /\ \A x \in Numbers :
       /\ Computed("ADD", Zero, x) = x /\ Computed("ADD", x, Zero) = x
       /\ Computed("SUB", x, Zero) = x /\ Computed("SUB", x, x) = Zero
       /\ Computed("MUL", Zero, x) = Zero /\ Computed("MUL", x, Zero) = Zero
       /\ Computed("MUL", One, x) = x /\ Computed("MUL", x, One) = x
       /\ x # Zero => Computed("DIV", Zero, x) = Zero
       /\ Computed("DIV", x, One) = x
       /\ x \in Positive => Computed("POW", Zero, x) = Zero
       /\ x # Zero => Computed("POW", x, Zero) = One
       /\ Computed("POW", One, x) = One /\ Computed("POW", x, One) = x

-------------------------------------------------------------------------------
Arithmetic == {"ADD", "SUB", "MUL", "DIV", "POW"}

(* That of NAN: pow() gives 1 for NAN ^ 0 and for 1 ^ NAN.                 *)
ASSUME NotANumberIsPassedOn ==
  \A op \in Arithmetic :
    /\ Computed(op, NotANumber, NotANumber) = NotANumber
    /\ \A x \in Numbers :
         /\ Computed(op, NotANumber, x) = IF op = "POW" /\ x = Zero THEN One ELSE NotANumber
         /\ Computed(op, x, NotANumber) = IF op = "POW" /\ x = One THEN One ELSE NotANumber

Constant(v) == Node("NUM", v, NoNode, NoNode)

IsNum(node) == node.type = "NUM"

(* NUM and cmp_double(.., v) == 0.  Its tolerance of 1e-7 is modelled as   *)
(* equality: nothing is said of trees with numbers nearer to 0 or 1 than   *)
(* that, which the code takes for 0 or 1.                                  *)
Is(node, v) == IsNum(node) /\ node.value = v

IsOp(node, ops) == node.type = "OP" /\ node.value \in ops

-------------------------------------------------------------------------------
(* Faulty variant: the wrong operand is tested.                            *)
EvalErrorOfLeft(node) ==
  CASE ~IsOp(node, Arithmetic) -> "MID_INVALID_OP"
    [] IsOp(node, {"DIV"}) /\ Is(node.left, Zero) -> "MID_DIV_BY_ZERO"
    [] OTHER -> "MID_ALL_GOOD"

(* eval() of a node of two numbers, which switches on op_value whatever    *)
(* the type of the node: for a comparison it is DO_NOTHING.                *)
EvalError(node) ==
  CASE ~IsOp(node, Arithmetic) -> "MID_INVALID_OP"
    [] IsOp(node, {"DIV"}) /\ Is(node.right, Zero) -> "MID_DIV_BY_ZERO"
    [] OTHER -> "MID_ALL_GOOD"

EvalValue(node) ==
  IF EvalError(node) = "MID_ALL_GOOD"
  THEN Computed(node.value, node.left.value, node.right.value)
  ELSE NotANumber

Foldable(node) == IsNum(node.left) /\ IsNum(node.right)

FoldConsts(node) == IF Foldable(node) THEN Constant(EvalValue(node)) ELSE node

(* Faulty variant: what holds of a sum is done with a difference.          *)
LeftZeroOfSub(node) ==
  CASE IsOp(node, {"MUL", "DIV", "POW"}) -> Constant(Zero)
    [] IsOp(node, {"ADD", "SUB"}) -> node.right
    [] OTHER -> node

(* The trivial expression a node is replaced by, or the node itself.  The  *)
(* first test that holds of an operand decides.                            *)
LeftZero(node) ==
  CASE IsOp(node, {"MUL", "DIV", "POW"}) -> Constant(Zero)
    [] IsOp(node, {"ADD"}) -> node.right
    [] OTHER -> node

RightZero(node) ==
  CASE IsOp(node, {"MUL"}) -> Constant(Zero)
    [] IsOp(node, {"POW"}) -> Constant(One)
    [] IsOp(node, {"DIV"}) -> Constant(NotANumber)
    [] IsOp(node, {"ADD", "SUB"}) -> node.left
    [] OTHER -> node

LeftOne(node) ==
  CASE IsOp(node, {"MUL"}) -> node.right
    [] IsOp(node, {"POW"}) -> Constant(One)
    [] OTHER -> node

RightOne(node) == IF IsOp(node, {"MUL", "POW", "DIV"}) THEN node.left ELSE node

(* Faulty variant: wcsncmp is not 0 for names that differ.                 *)
VarSubOther(node) ==
  /\ node.left.type = "VAR" /\ node.right.type = "VAR"
  /\ IsOp(node, {"SUB"})
  /\ node.left.value # node.right.value

VarSubVar(node) ==
  /\ node.left.type = "VAR" /\ node.right.type = "VAR"
  /\ IsOp(node, {"SUB"})
  /\ node.left.value = node.right.value

SolveTrivialExpr(node) ==
  IF node.left = NoNode \/ node.right = NoNode THEN node
  ELSE IF Is(node.left, Zero) THEN LeftZero(node)
  ELSE IF Is(node.right, Zero) THEN RightZero(node)
  ELSE IF Is(node.left, One) THEN LeftOne(node)
  ELSE IF Is(node.right, One) THEN RightOne(node)
  ELSE IF VarSubVar(node) THEN Constant(Zero)
  ELSE node
-------------------------------------------------------------------------------
(* The meaning of an operation, by arithmetic: without a value where it    *)
(* divides by zero or raises zero to a power that is not above it.         *)
Applied(op, a, b) ==
  IF \/ a = Undefined \/ b = Undefined
     \/ op = "DIV" /\ b = Zero
     \/ op = "POW" /\ a = Zero /\ b \notin Positive
  THEN Undefined ELSE Computed(op, a, b)
===============================================================================
