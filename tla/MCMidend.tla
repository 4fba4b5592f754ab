------------------------------- MODULE MCMidend -------------------------------
(***************************************************************************)
(* Expressions for TLC: all with an operator over operands of which one    *)
(* may have an operator itself, with two variables, two calls and three    *)
(* numbers.  An exponent is one number, variable or call.                  *)
(***************************************************************************)
EXTENDS MidendProperties, Integers

CONSTANT NaN

(* Numbers are fractions <<n, d>> in lowest terms, d > 0.                  *)
Divides(k, n) == n % k = 0

Abs(n) == IF n < 0 THEN -n ELSE n

Lowest(n, d) ==
  LET k == CHOOSE k \in 1..d : /\ Divides(k, n) /\ Divides(k, d)
                               /\ \A j \in (k + 1)..d : ~(Divides(j, n) /\ Divides(j, d))
  IN  <<n \div k, d \div k>>

Fraction(n, d) == IF d < 0 THEN Lowest(-n, -d) ELSE Lowest(n, d)

MCZero == <<0, 1>>
MCOne == <<1, 1>>

(* What is written of POW: exponents that are natural numbers, but for the *)
(* powers of 0 and 1.                                                      *)
MCComputed(op, a, b) ==
  IF op = "POW" /\ (a = MCOne \/ b = MCZero) THEN MCOne
  ELSE IF a = NaN \/ b = NaN THEN NaN
  ELSE CASE op = "ADD" -> Fraction(a[1] * b[2] + b[1] * a[2], a[2] * b[2])
         [] op = "SUB" -> Fraction(a[1] * b[2] - b[1] * a[2], a[2] * b[2])
         [] op = "MUL" -> Fraction(a[1] * b[1], a[2] * b[2])
         [] op = "DIV" -> Fraction(a[1] * b[2], a[2] * b[1])
         [] op = "POW" /\ a = MCZero -> MCZero
         [] op = "POW" /\ a # MCZero -> <<a[1] ^ b[1], a[2] ^ b[1]>>

(* Numbers for which the arithmetic is checked; all exponents are among    *)
(* the positive ones, or 0.                                                *)
MCNumbers == {Fraction(n, d) : n \in -27..27, d \in 1..6}
MCPositive == {Fraction(n, d) : n \in 1..27, d \in 1..6}

Leaves ==
  {Constant(<<n, 1>>) : n \in 0..2}
  \cup {Node("VAR", v, NoNode, NoNode) : v \in {"x", "y"}}
  \cup {Node("FUNC", v, NoNode, NoNode) : v \in {"f", "g"}}

Of(a, b) ==
  {Node("OP", op, a, b) : op \in Arithmetic \ {"POW"}}
  \cup {Node("EQUAL", Zero, a, b)}
  \cup (IF b \in Leaves THEN {Node("OP", "POW", a, b)} ELSE {})

Simple == UNION {Of(a, b) : a, b \in Leaves}

MCExprs ==
  Simple \cup UNION {Of(a, b) : a \in Leaves, b \in Simple}
         \cup UNION {Of(a, b) : a \in Simple, b \in Leaves}

MCEnvs ==
  {[x |-> <<p, 1>>, y |-> <<q, 1>>, f |-> <<3, 1>>, g |-> <<1, 1>>] : p, q \in {0, 2}}

-------------------------------------------------------------------------------
(* Values, calls, nodes and sizes, by recursion over the tree.             *)
Compared(a, b) ==
  IF a = Undefined \/ b = Undefined THEN Undefined ELSE IF a = b THEN MCOne ELSE MCZero

Number(v) == IF v = NaN THEN Undefined ELSE v

RECURSIVE MCValue(_, _), MCNodes(_), MCCallsOf(_), MCSize(_)

MCValue(node, env) ==
  CASE node = NoNode -> MCZero
    [] node.type = "NUM" -> Number(node.value)
    [] node.type \in {"VAR", "FUNC"} -> env[node.value]
    [] node.type = "OP" ->
         Number(Applied(node.value, MCValue(node.left, env), MCValue(node.right, env)))
    [] node.type = "EQUAL" -> Compared(MCValue(node.left, env), MCValue(node.right, env))

MCNodes(node) ==
  IF node = NoNode THEN {} ELSE {node} \cup MCNodes(node.left) \cup MCNodes(node.right)

(* A function is called when its arguments are there.                      *)
MCCallsOf(node) ==
  IF node = NoNode THEN << >>
  ELSE MCCallsOf(node.left) \o MCCallsOf(node.right)
         \o (IF node.type = "FUNC" THEN << node.value >> ELSE << >>)

MCSize(node) ==
  IF node = NoNode THEN 0 ELSE 1 + MCSize(node.left) + MCSize(node.right)

(* They are what the theorems take them for.                               *)
ASSUME PartsOfTrees ==
  LET trees == Leaves \cup Simple
  IN  ValuesOfParts(trees) /\ NodesOfParts(trees) /\ SizesOfParts(trees) /\ CallsOfParts(trees)
===============================================================================
