--------------------------- MODULE MidendProperties ---------------------------
(***************************************************************************)
(* What optimize() promises of the whole tree: of its value, its calls,    *)
(* its nodes and its size.  They are defined by recursion over the tree.   *)
(* To be proved about they are parameters: MCMidend gives them their       *)
(* definitions, and the theorems use the equations below.                  *)
(***************************************************************************)
EXTENDS Midend, Naturals

CONSTANTS Value(_, _),  \* of a tree, with the variables and calls of an environment
          Envs,         \* the environments
          Nodes(_),     \* of a tree
          CallsOf(_),   \* the calls in a tree, in its order
          Size(_)       \* the number of its nodes

-------------------------------------------------------------------------------
(* The equations by which they are given, for the trees of a set T.        *)
Values == Numbers \cup {Undefined}

(* The value of a tree is made of those of its children: a number is its   *)
(* own, that of an operation is calculated, and any other node has one     *)
(* only where its children have, by its type, its name and their values.   *)
Given(v) == IF v \in Numbers THEN v ELSE Undefined

ValueOfParts(n, T, env) ==
  /\ Value(n, env) \in Values
  /\ IsNum(n) => Value(n, env) = Given(n.value)
  /\ IsOp(n, Arithmetic) =>
       Value(n, env) = Given(Applied(n.value, Value(n.left, env), Value(n.right, env)))
  /\ ~IsNum(n) /\ ~IsOp(n, Arithmetic) =>
       /\ Value(n, env) # Undefined =>
            Value(n.left, env) # Undefined /\ Value(n.right, env) # Undefined
       /\ \A m \in T :
            (/\ m.type = n.type /\ m.value = n.value
             /\ Value(m.left, env) = Value(n.left, env)
             /\ Value(m.right, env) = Value(n.right, env))
              => Value(m, env) = Value(n, env)

ValuesOfParts(T) ==
  \A env \in Envs : /\ Value(NoNode, env) \in Numbers
                    /\ \A n \in T : ValueOfParts(n, T, env)

NodesOfParts(T) ==
  /\ Nodes(NoNode) = {}
  /\ \A n \in T : Nodes(n) = {n} \cup Nodes(n.left) \cup Nodes(n.right)

(* Trees are finite.                                                       *)
SizesOfParts(T) ==
  /\ Size(NoNode) = 0
  /\ \A n \in T : Size(n) \in Nat /\ Size(n) = 1 + Size(n.left) + Size(n.right)

(* The calls in a tree are those in its children, and its own behind them. *)
CallsOfParts(T) ==
  /\ CallsOf(NoNode) = << >>
  /\ \A n \in T :
       /\ CallsOf(n) \in Seq({CallsOf(n)[i] : i \in 1..Len(CallsOf(n))})
       /\ CallsOf(n) = CallsOf(n.left) \o CallsOf(n.right)
                         \o (IF n.type = "FUNC" THEN << n.value >> ELSE << >>)
-------------------------------------------------------------------------------
(* Whatever is folded, dropped or lifted over how many passes, a tree that *)
(* is accepted has the value it had, for all variables and all results of  *)
(* calls with which it had one.                                            *)
ValueKept ==
  Accepted => \A env \in Envs :
    Value(expr, env) # Undefined => Value(tree, env) = Value(expr, env)

(* Calls may be dropped with an operand that does not matter, but none     *)
(* comes twice or before one that was written in front of it: operands     *)
(* stay on their sides.                                                    *)
Within(after, before) ==
  \E place \in [1..Len(after) -> 1..Len(before)] :
    /\ \A i \in 1..Len(after) : after[i] = before[place[i]]
    /\ \A i, j \in 1..Len(after) : i < j => place[i] < place[j]

CallsInOrder == Within(CallsOf(tree), CallsOf(expr))

(* The compiler stops at an error of eval() only when it must: where the   *)
(* expression has no value at all, or compares what is constant, which     *)
(* eval() does not know how to do.                                         *)
ConstantIn(node) ==
  \A e1, e2 \in Envs :
    \/ Undefined \in {Value(node, e1), Value(node, e2)}
    \/ Value(node, e1) = Value(node, e2)

Cause(error) ==
  /\ error = "MID_DIV_BY_ZERO" => \A env \in Envs : Value(expr, env) = Undefined
  /\ error = "MID_INVALID_OP" =>
       \E n \in Nodes(expr) :
         /\ ~IsOp(n, Arithmetic) /\ n.left # NoNode /\ n.right # NoNode
         /\ ConstantIn(n.left) /\ ConstantIn(n.right)

RefusedForCause == Cause(mid_error)

(* What fold_consts() and solve_trivial_expr() are there to remove is not  *)
(* there: a node of any type over two numbers; 0 + x, 0 * x, 0 / x, 0 ^ x  *)
(* (0 - x may stay); any operation with a 0 on the right; 1 * x, 1 ^ x;    *)
(* x * 1, x / 1, x ^ 1; and a variable less itself.  Theorem               *)
(* ReducedIsLeftAlone of module MidendProofs: there is no other node that  *)
(* the two leave as it is, and none of these that they change.             *)
Reduced(n) ==
  /\ n.left.type = "NUM" => n.right.type # "NUM"
  /\ IsOp(n, Arithmetic) =>
       /\ Is(n.left, Zero) => n.value = "SUB"
       /\ ~Is(n.right, Zero)
       /\ Is(n.left, One) => n.value \notin {"MUL", "POW"}
       /\ Is(n.right, One) => n.value \in {"ADD", "SUB"}
       /\ n.value = "SUB" /\ n.left.type = "VAR" /\ n.right.type = "VAR" =>
            n.left.value # n.right.value

(* The loop ends with nothing left that it is there to remove, also where  *)
(* one simplification opened the way for another.                          *)

FullySimplified == mstage = "optimized" => \A n \in Nodes(tree) : Reduced(n)

(* Each pass that does something leaves a smaller tree, and asks for       *)
(* another pass.                                                           *)
PassShrinks ==
  [][tree' # tree => Size(tree') < Size(tree) /\ change_flag']_mvars

(* The loop of optimize() ends.                                            *)
OptimizeEnds == <>(mstage = "optimized")
===============================================================================
