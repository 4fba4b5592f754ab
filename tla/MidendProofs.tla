----------------------------- MODULE MidendProofs -----------------------------
(***************************************************************************)
(* Theorems about the simplification of one node and about the passes over *)
(* a tree of any size, for all numbers that have the arithmetic of 0 and 1 *)
(* and for all values of variables and calls.                              *)
(***************************************************************************)
EXTENDS MidendProperties, SequenceLemmas

(* V gives the values of a node, its operands and the constants: the node  *)
(* has that of its operation, if it has a value, and a variable its own.   *)
Meaning(V, node) ==
  /\ \A v \in Numbers : V[Constant(v)] = v
  /\ V[node.left] \in Values /\ V[node.right] \in Values
  /\ IsNum(node.left) =>
       V[node.left] = IF node.left.value \in Numbers THEN node.left.value ELSE Undefined
  /\ IsNum(node.right) =>
       V[node.right] = IF node.right.value \in Numbers THEN node.right.value ELSE Undefined
  /\ node.left.type = "VAR" /\ node.right.type = "VAR" /\ node.left.value = node.right.value
       => V[node.left] = V[node.right]
  /\ IsOp(node, Arithmetic) /\ V[node] # Undefined
       => V[node] = Applied(node.value, V[node.left], V[node.right])

(* What it says of an operation that has a value.                          *)
LEMMA WithValue ==
  ASSUME NEW node, NEW V, Meaning(V, node), V[node] # Undefined, IsOp(node, Arithmetic)
  PROVE  /\ V[node.left] \in Numbers /\ V[node.right] \in Numbers
         /\ V[node] = Computed(node.value, V[node.left], V[node.right])
         /\ node.value = "DIV" => V[node.right] # Zero
         /\ node.value = "POW" /\ V[node.left] = Zero => V[node.right] \in Positive
<1>1. V[node] = Applied(node.value, V[node.left], V[node.right])
  BY DEF Meaning
<1>2. V[node.left] # Undefined /\ V[node.right] # Undefined
  BY <1>1 DEF Applied
<1>3. V[node.left] \in Numbers /\ V[node.right] \in Numbers
  BY <1>2 DEF Meaning, Values
<1> QED BY <1>1, <1>3 DEF Applied

(* A number in the place of an operand is its value.                       *)
LEMMA OfNumbers ==
  ASSUME NEW node, NEW V, Meaning(V, node), NEW v \in Numbers
  PROVE  /\ V[Constant(v)] = v
         /\ Is(node.left, v) => V[node.left] = v
         /\ Is(node.right, v) => V[node.right] = v
BY DEF Meaning, Is

LEMMA KindsOfOp ==
  ASSUME NEW node, NEW ops, ops \subseteq Arithmetic, IsOp(node, ops)
  PROVE  IsOp(node, Arithmetic) /\ node.value \in ops
BY DEF IsOp

LEMMA ZeroFirst ==
  ASSUME NEW b \in Numbers, NEW op \in {"MUL", "DIV", "POW"},
         op = "DIV" => b # Zero, op = "POW" => b \in Positive
  PROVE  Computed(op, Zero, b) = Zero
<1>1. CASE op = "MUL"
  BY <1>1, SimplificationConstants
<1>2. CASE op = "DIV"
  BY <1>2, SimplificationConstants
<1>3. CASE op = "POW"
  BY <1>3, SimplificationConstants
<1> QED BY <1>1, <1>2, <1>3

LEMMA ZeroOnTheLeft ==
  ASSUME NEW node, NEW V, Meaning(V, node), V[node] # Undefined, Is(node.left, Zero)
  PROVE  V[LeftZero(node)] = V[node]
<1>1. V[node.left] = Zero /\ V[Constant(Zero)] = Zero
  BY OfNumbers, SimplificationConstants
<1>2. CASE IsOp(node, {"MUL", "DIV", "POW"})
  <2>1. IsOp(node, Arithmetic) /\ node.value \in {"MUL", "DIV", "POW"}
    BY <1>2, KindsOfOp DEF Arithmetic
  <2>2. /\ V[node.right] \in Numbers /\ V[node] = Computed(node.value, Zero, V[node.right])
        /\ node.value = "DIV" => V[node.right] # Zero
        /\ node.value = "POW" => V[node.right] \in Positive
    BY <1>1, <2>1, WithValue
  <2>3. V[node] = Zero
    BY <2>1, <2>2, ZeroFirst
  <2>4. LeftZero(node) = Constant(Zero)
    BY <2>1 DEF LeftZero, IsOp, Arithmetic
  <2> QED BY <1>1, <2>3, <2>4
<1>3. CASE IsOp(node, {"ADD"})
  <2>1. IsOp(node, Arithmetic) /\ node.value = "ADD"
    BY <1>3, KindsOfOp DEF Arithmetic
  <2>2. V[node.right] \in Numbers /\ V[node] = Computed("ADD", Zero, V[node.right])
    BY <1>1, <2>1, WithValue
  <2>3. V[node] = V[node.right]
    BY <2>2, SimplificationConstants
  <2> QED BY <1>3, <2>1, <2>3 DEF LeftZero, IsOp
<1>4. CASE ~IsOp(node, {"MUL", "DIV", "POW"}) /\ ~IsOp(node, {"ADD"})
  BY <1>4 DEF LeftZero
<1> QED BY <1>2, <1>3, <1>4

LEMMA ZeroOnTheRight ==
  ASSUME NEW node, NEW V, Meaning(V, node), V[node] # Undefined, Is(node.right, Zero)
  PROVE  V[RightZero(node)] = V[node]
<1>1. V[node.right] = Zero /\ V[Constant(Zero)] = Zero /\ V[Constant(One)] = One
  BY OfNumbers, SimplificationConstants
<1>2. Zero \notin Positive
  BY SimplificationConstants
<1>3. ASSUME IsOp(node, Arithmetic)
      PROVE  /\ V[node.left] \in Numbers /\ V[node] = Computed(node.value, V[node.left], Zero)
             /\ node.value # "DIV"
             /\ node.value = "POW" => V[node.left] # Zero
  BY <1>1, <1>2, <1>3, WithValue
<1>4. CASE IsOp(node, {"MUL"})
  <2>1. V[node] = Zero
    BY <1>3, <1>4, KindsOfOp, SimplificationConstants DEF Arithmetic, IsOp
  <2>2. RightZero(node) = Constant(Zero)
    BY <1>4 DEF RightZero, IsOp
  <2> QED BY <1>1, <2>1, <2>2
<1>5. CASE IsOp(node, {"POW"})
  <2>1. V[node] = One
    BY <1>3, <1>5, KindsOfOp, SimplificationConstants DEF Arithmetic, IsOp
  <2> QED BY <1>1, <1>5, <2>1 DEF RightZero, IsOp
<1>6. CASE IsOp(node, {"DIV"})
  BY <1>3, <1>6 DEF Arithmetic, IsOp
<1>7. CASE IsOp(node, {"ADD", "SUB"})
  <2>1. V[node] = V[node.left]
    BY <1>3, <1>7, KindsOfOp, SimplificationConstants DEF Arithmetic, IsOp
  <2> QED BY <1>7, <2>1 DEF RightZero, IsOp
<1>8. CASE ~IsOp(node, Arithmetic)
  BY <1>8 DEF RightZero, IsOp, Arithmetic
<1> QED BY <1>4, <1>5, <1>6, <1>7, <1>8 DEF IsOp, Arithmetic

LEMMA OneOnTheLeft ==
  ASSUME NEW node, NEW V, Meaning(V, node), V[node] # Undefined, Is(node.left, One)
  PROVE  V[LeftOne(node)] = V[node]
<1>1. V[node.left] = One /\ V[Constant(One)] = One
  BY OfNumbers, SimplificationConstants
<1>2. ASSUME IsOp(node, Arithmetic)
      PROVE  V[node.right] \in Numbers /\ V[node] = Computed(node.value, One, V[node.right])
  BY <1>1, <1>2, WithValue
<1>3. CASE IsOp(node, {"MUL"})
  <2>1. V[node] = V[node.right]
    BY <1>2, <1>3, KindsOfOp, SimplificationConstants DEF Arithmetic, IsOp
  <2>2. LeftOne(node) = node.right
    BY <1>3 DEF LeftOne, IsOp
  <2> QED BY <2>1, <2>2
<1>4. CASE IsOp(node, {"POW"})
  <2>1. V[node] = One
    BY <1>2, <1>4, KindsOfOp, SimplificationConstants DEF Arithmetic, IsOp
  <2> QED BY <1>1, <1>4, <2>1 DEF LeftOne, IsOp
<1>5. CASE ~IsOp(node, {"MUL"}) /\ ~IsOp(node, {"POW"})
  BY <1>5 DEF LeftOne
<1> QED BY <1>3, <1>4, <1>5

LEMMA OneOnTheRight ==
  ASSUME NEW node, NEW V, Meaning(V, node), V[node] # Undefined, Is(node.right, One)
  PROVE  V[RightOne(node)] = V[node]
<1>1. V[node.right] = One
  BY OfNumbers, SimplificationConstants
<1>2. CASE IsOp(node, {"MUL", "POW", "DIV"})
  <2>1. V[node.left] \in Numbers /\ V[node] = Computed(node.value, V[node.left], One)
    BY <1>1, <1>2, KindsOfOp, WithValue DEF Arithmetic
  <2>2. V[node] = V[node.left]
    BY <1>2, <2>1, SimplificationConstants DEF IsOp
  <2> QED BY <1>2, <2>2 DEF RightOne
<1>3. CASE ~IsOp(node, {"MUL", "POW", "DIV"})
  BY <1>3 DEF RightOne
<1> QED BY <1>2, <1>3

(* solve_trivial_expr() puts a node or a number in the place of a node     *)
(* only where it has the same value: whatever the operands are, if the     *)
(* node has a value, what it is replaced by has that value.                *)
THEOREM SolvingKeepsTheValue ==
  ASSUME NEW node, NEW V, Meaning(V, node), V[node] # Undefined
  PROVE  V[SolveTrivialExpr(node)] = V[node]
<1>1. CASE VarSubVar(node)
  <2>1. IsOp(node, Arithmetic) /\ node.value = "SUB"
    BY <1>1 DEF VarSubVar, IsOp, Arithmetic
  <2>2. V[node.left] = V[node.right]
    BY <1>1 DEF VarSubVar, Meaning
  <2>3. V[node.left] \in Numbers /\ V[node] = Computed("SUB", V[node.left], V[node.left])
    BY <2>1, <2>2, WithValue
  <2>4. V[node] = Zero /\ V[Constant(Zero)] = Zero
    BY <2>3, OfNumbers, SimplificationConstants
  <2> QED
    BY <1>1, <2>4, ZeroOnTheLeft, ZeroOnTheRight, OneOnTheLeft, OneOnTheRight
    DEF SolveTrivialExpr
<1>2. CASE ~VarSubVar(node)
  BY <1>2, ZeroOnTheLeft, ZeroOnTheRight, OneOnTheLeft, OneOnTheRight DEF SolveTrivialExpr
<1> QED BY <1>1, <1>2

(* fold_consts() keeps the value of an operation that has one, and eval()  *)
(* refuses none that has: an error is reported only where there is no      *)
(* value to keep.                                                          *)
THEOREM FoldingKeepsTheValue ==
  ASSUME NEW node, NEW V, Meaning(V, node), IsOp(node, Arithmetic), V[node] \in Numbers
  PROVE  V[FoldConsts(node)] = V[node] /\ (Foldable(node) => EvalError(node) = "MID_ALL_GOOD")
<1>1. CASE Foldable(node)
  <2>1. V[node] # Undefined /\ Undefined \notin Numbers
    BY SimplificationConstants
  <2>2. /\ V[node.left] = node.left.value /\ V[node.right] = node.right.value
        /\ node.left.value \in Numbers /\ node.right.value \in Numbers
    BY <1>1, <2>1, WithValue DEF Foldable, Meaning
  <2>3. /\ V[node] = Computed(node.value, node.left.value, node.right.value)
        /\ node.value = "DIV" => node.right.value # Zero
    BY <2>1, <2>2, WithValue
  <2>4. EvalError(node) = "MID_ALL_GOOD"
    BY <2>3 DEF EvalError, IsOp, Is
  <2> QED BY <1>1, <2>3, <2>4 DEF FoldConsts, EvalValue, Meaning
<1>2. CASE ~Foldable(node)
  BY <1>2 DEF FoldConsts
<1> QED BY <1>1, <1>2
-------------------------------------------------------------------------------
(* T is a set of trees: it has the leaves of the numbers, the children of  *)
(* its trees, what eval() makes of two numbers, and what becomes of a tree *)
(* when another is put in the place of a child.  All finite trees over     *)
(* some names and numbers are such a set.                                  *)
Closed(T) ==
  /\ NoNode \notin T
  /\ \A v \in Numbers \cup {NotANumber} : Constant(v) \in T
  /\ \A n \in T :
       /\ n = Node(n.type, n.value, n.left, n.right)
       /\ n.left \in T \cup {NoNode} /\ n.right \in T \cup {NoNode}
       /\ n.type \in {"NUM", "VAR"} => n.left = NoNode /\ n.right = NoNode
       /\ IsOp(n, Arithmetic) => n.left \in T /\ n.right \in T
       /\ Foldable(n) => FoldConsts(n) \in T
       /\ \A c \in T :
            /\ n.left \in T => Node(n.type, n.value, c, n.right) \in T
            /\ n.right \in T => Node(n.type, n.value, n.left, c) \in T

(* What simplify() makes of a node whose children are done, and whether    *)
(* eval() refuses it.                                                      *)
Simplified(n) == SolveTrivialExpr(FoldConsts(n))

Refused(n) == Foldable(n) /\ EvalError(n) # "MID_ALL_GOOD"

LEMMA OfConstants ==
  ASSUME NEW v
  PROVE  /\ Constant(v).type = "NUM" /\ Constant(v).value = v
         /\ Constant(v).left = NoNode /\ Constant(v).right = NoNode
         /\ SolveTrivialExpr(Constant(v)) = Constant(v)
BY DEF Constant, Node, SolveTrivialExpr

(* Only nodes of two children become anything else.                        *)
LEMMA KindsOfSolution ==
  ASSUME NEW n, SolveTrivialExpr(n) # n
  PROVE  /\ n.left # NoNode /\ n.right # NoNode
         /\ IsOp(n, Arithmetic)
         /\ SolveTrivialExpr(n) \in
              {n.left, n.right, Constant(Zero), Constant(One), Constant(NotANumber)}
<1>1. n.left # NoNode /\ n.right # NoNode
  BY DEF SolveTrivialExpr
<1>2. SolveTrivialExpr(n) \in
        {n, LeftZero(n), RightZero(n), LeftOne(n), RightOne(n)}
        \cup (IF VarSubVar(n) THEN {Constant(Zero)} ELSE {})
  BY <1>1 DEF SolveTrivialExpr
<1>3. VarSubVar(n) => IsOp(n, Arithmetic)
  BY DEF VarSubVar, IsOp, Arithmetic
<1>4. LeftZero(n) # n => IsOp(n, Arithmetic) /\ LeftZero(n) \in {Constant(Zero), n.right}
  BY DEF LeftZero, IsOp, Arithmetic
<1>5. RightZero(n) # n =>
        IsOp(n, Arithmetic)
        /\ RightZero(n) \in {Constant(Zero), Constant(One), Constant(NotANumber), n.left}
  BY DEF RightZero, IsOp, Arithmetic
<1>6. LeftOne(n) # n => IsOp(n, Arithmetic) /\ LeftOne(n) \in {Constant(One), n.right}
  BY DEF LeftOne, IsOp, Arithmetic
<1>7. RightOne(n) # n => IsOp(n, Arithmetic) /\ RightOne(n) = n.left
  BY DEF RightOne, IsOp, Arithmetic
<1> QED BY <1>1, <1>2, <1>3, <1>4, <1>5, <1>6, <1>7

LEMMA KindsOfSimplified ==
  ASSUME NEW T, Closed(T), NEW n \in T
  PROVE  /\ Simplified(n) \in T
         /\ \/ Simplified(n) = n /\ ~Foldable(n)
            \/ /\ n.left \in T /\ n.right \in T
               /\ \/ Simplified(n) \in {n.left, n.right}
                  \/ \E v : Simplified(n) = Constant(v)
<1>1. CASE Foldable(n)
  <2>1. FoldConsts(n) = Constant(EvalValue(n)) /\ Simplified(n) = Constant(EvalValue(n))
    BY <1>1, OfConstants DEF FoldConsts, Simplified
  <2>2. Simplified(n) \in T
    BY <1>1, <2>1 DEF Closed
  <2>3. NoNode.type # "NUM"
    BY DEF NoNode
  <2>4. n.left \in T /\ n.right \in T
    BY <1>1, <2>3 DEF Closed, Foldable, IsNum
  <2> QED BY <2>1, <2>2, <2>4
<1>2. CASE ~Foldable(n)
  <2>1. Simplified(n) = SolveTrivialExpr(n)
    BY <1>2 DEF FoldConsts, Simplified
  <2>2. CASE SolveTrivialExpr(n) = n
    BY <1>2, <2>1, <2>2
  <2>3. CASE SolveTrivialExpr(n) # n
    <3>1. n.left \in T /\ n.right \in T
      BY <2>3, KindsOfSolution DEF Closed
    <3>2. Constant(Zero) \in T /\ Constant(One) \in T /\ Constant(NotANumber) \in T
      BY SimplificationConstants DEF Closed
    <3>3. SolveTrivialExpr(n) \in
            {n.left, n.right, Constant(Zero), Constant(One), Constant(NotANumber)}
      BY <2>3, KindsOfSolution
    <3> QED BY <2>1, <3>1, <3>2, <3>3
  <2> QED BY <2>2, <2>3
<1> QED BY <1>1, <1>2
-------------------------------------------------------------------------------
(* The activations: all that are waiting have a child to wait for.         *)
Calls(T) == Seq([node : T, todo : SUBSET {"left", "right"}])

OnSides(call, T) ==
  /\ call.node \in T /\ call.todo \in SUBSET {"left", "right"}
  /\ "left" \in call.todo => call.node.left \in T
  /\ "right" \in call.todo => call.node.right \in T

WalkTypeOK(T) ==
  /\ expr \in T /\ tree \in T
  /\ change_flag \in BOOLEAN
  /\ mstage = "simplify" <=> calls # << >>
  /\ IsSeq(calls)
  /\ \A k \in 1..Len(calls) :
       OnSides(calls[k], T) /\ (k # 1 => calls[k].todo # {})

(* What becomes of the stack in a step.                                    *)
Pushed(cs, c, ds) ==
  /\ IsSeq(ds) /\ ds # << >> /\ Len(ds) = Len(cs) + 1 /\ ds[1] = c
  /\ \A k \in 1..Len(ds) : k # 1 => k - 1 \in 1..Len(cs) /\ ds[k] = cs[k - 1]

Popped(cs, c, ds) ==
  /\ IsSeq(ds) /\ ds # << >> /\ Len(ds) = Len(cs) - 1 /\ ds[1] = c
  /\ 1 \in 1..Len(ds)
  /\ \A k \in 1..Len(ds) : k + 1 \in 1..Len(cs) /\ (k # 1 => ds[k] = cs[k + 1])

LEMMA PushedCall ==
  ASSUME NEW cs, IsSeq(cs), NEW c
  PROVE  Pushed(cs, c, << c >> \o cs)
<1> DEFINE one == << c >>
           ds == one \o cs
<1>1. IsSeq(one) /\ Len(one) = 1 /\ one[1] = c
  BY Short
<1> HIDE DEF one
<1>2. IsSeq(ds) /\ Follow(one, cs, ds)
  BY <1>1, Joined
<1> HIDE DEF ds
<1>3. Len(cs) \in Nat /\ Len(ds) = Len(cs) + 1 /\ 1 \in 1..Len(one) /\ ds[1] = c
  BY <1>1, <1>2 DEF Follow
<1>4. ASSUME NEW k \in 1..Len(ds), k # 1
      PROVE  k - 1 \in 1..Len(cs) /\ ds[k] = cs[k - 1]
  <2>1. k - 1 \in 1..Len(cs) /\ Len(one) + (k - 1) = k
    BY <1>1, <1>3, <1>4
  <2>2. ds[Len(one) + (k - 1)] = cs[k - 1]
    BY <1>2, <2>1 DEF Follow
  <2> QED BY <2>1, <2>2
<1>5. ds # << >>
  BY <1>3, Short
<1>6. Pushed(cs, c, ds)
  BY <1>2, <1>3, <1>4, <1>5 DEF Pushed
<1> QED BY <1>6 DEF ds, one

LEMMA PoppedCall ==
  ASSUME NEW cs, IsSeq(cs), cs # << >>, Len(cs) # 1, NEW c,
         NEW ds, ds = [Tail(cs) EXCEPT ![1] = c]
  PROVE  Popped(cs, c, ds)
<1> DEFINE rest == Tail(cs)
<1>1. /\ Len(cs) \in Nat /\ 1 \in 1..Len(cs) /\ IsSeq(rest) /\ Len(rest) = Len(cs) - 1
      /\ \A k \in 1..Len(rest) : k + 1 \in 1..Len(cs) /\ rest[k] = cs[k + 1]
  BY Beheaded
<1>2. PICK W : rest \in Seq(W)
  BY <1>1 DEF IsSeq
<1> HIDE DEF rest
<1>3. 1 \in 1..Len(rest)
  BY <1>1
<1>4. rest \in Seq(W \cup {c})
  <2>1. W \subseteq W \cup {c}
    OBVIOUS
  <2> QED BY <1>2, <2>1, SeqMonotonic
<1>5. /\ ds \in Seq(W \cup {c}) /\ Len(ds) = Len(rest)
      /\ \A j \in 1..Len(rest) : ds[j] = IF j = 1 THEN c ELSE rest[j]
  <2>1. ds = [rest EXCEPT ![1] = c] /\ c \in W \cup {c}
    BY DEF rest
  <2> DEFINE rs == [rest EXCEPT ![1] = c]
  <2>2. /\ rs \in Seq(W \cup {c}) /\ Len(rs) = Len(rest)
        /\ \A j \in 1..Len(rest) : rs[j] = IF j = 1 THEN c ELSE rest[j]
    BY <1>3, <1>4, <2>1, ExceptSeq
  <2> QED BY <2>1, <2>2
<1>6. IsSeq(ds) /\ ds # << >>
  BY <1>1, <1>3, <1>5, Short DEF IsSeq
<1> QED BY <1>1, <1>3, <1>5, <1>6 DEF Popped

(* An activation's child, and its end.                                     *)
LEMMA OfCalls ==
  ASSUME NEW T, Closed(T), NEW call, OnSides(call, T), call.todo # {}
  PROVE  /\ Child(call) \in T
         /\ \A c \in T : OnSides(Resumed(call, c), T)
<1>1. NoNode \notin T
  BY DEF Closed
<1>2. /\ call.node \in T
      /\ "left" \in call.todo => call.node.left \in T
      /\ "left" \notin call.todo => "right" \in call.todo /\ call.node.right \in T
  BY DEF OnSides
<1>3. ASSUME NEW c \in T, "left" \in call.todo
      PROVE  OnSides(Resumed(call, c), T)
  <2> DEFINE n == Node(call.node.type, call.node.value, c, call.node.right)
  <2>1. n \in T /\ n.right = call.node.right /\ n.left = c
    BY <1>2, <1>3 DEF Closed, Node
  <2> HIDE DEF n
  <2>2. Resumed(call, c) = [node |-> n, todo |-> call.todo \ {"left"}]
    BY <1>3 DEF Resumed, n
  <2> QED BY <2>1, <2>2 DEF OnSides
<1>4. ASSUME NEW c \in T, "left" \notin call.todo
      PROVE  OnSides(Resumed(call, c), T)
  <2> DEFINE n == Node(call.node.type, call.node.value, call.node.left, c)
  <2>1. n \in T
    BY <1>2, <1>4 DEF Closed
  <2> HIDE DEF n
  <2>2. Resumed(call, c) = [node |-> n, todo |-> {}]
    BY <1>4 DEF Resumed, n
  <2> QED BY <2>1, <2>2 DEF OnSides
<1>5. Child(call) \in T
  BY <1>2 DEF Child
<1> QED BY <1>3, <1>4, <1>5

LEMMA OfActivation ==
  ASSUME NEW T, Closed(T), NEW n \in T
  PROVE  OnSides(Activation(n), T) /\ Activation(n).node = n /\ Activation(n).todo = Sides(n)
<1>1. n.left \in T \cup {NoNode} /\ n.right \in T \cup {NoNode}
  BY DEF Closed
<1>2. /\ Sides(n) \in SUBSET {"left", "right"}
      /\ "left" \in Sides(n) => n.left \in T
      /\ "right" \in Sides(n) => n.right \in T
  BY <1>1 DEF Sides
<1> QED BY <1>2 DEF Activation, OnSides
-------------------------------------------------------------------------------
(* What the steps do to the activations.                                   *)
LEMMA DescendStep ==
  ASSUME NEW T, Closed(T), WalkTypeOK(T), Descend
  PROVE  /\ 1 \in 1..Len(calls) /\ OnSides(calls[1], T) /\ calls[1].todo # {}
         /\ Child(calls[1]) \in T
         /\ Pushed(calls, Activation(Child(calls[1])), calls')
<1>1. mstage = "simplify" /\ Head(calls).todo # {}
      /\ calls' = << Activation(Child(Head(calls))) >> \o calls
  BY DEF Descend
<1>2. IsSeq(calls) /\ calls # << >>
  BY <1>1 DEF WalkTypeOK
<1>3. 1 \in 1..Len(calls) /\ Head(calls) = calls[1]
  BY <1>2, Beheaded
<1>4. OnSides(calls[1], T)
  BY <1>3 DEF WalkTypeOK
<1>5. Child(calls[1]) \in T
  BY <1>1, <1>3, <1>4, OfCalls
<1>6. Pushed(calls, Activation(Child(calls[1])), calls')
  BY <1>1, <1>2, <1>3, PushedCall
<1> QED BY <1>1, <1>3, <1>4, <1>5, <1>6

(* A pass that has noted no change has left the node as it was.            *)
Ends(T) ==
  LET n == calls[1].node
      s == Simplified(n)
  IN  /\ 1 \in 1..Len(calls) /\ n \in T /\ s \in T /\ calls[1].todo = {}
      /\ change_flag' \in BOOLEAN
      /\ change_flag => change_flag'
      /\ ~change_flag' => ~Foldable(n) /\ SolveTrivialExpr(n) = n /\ s = n
      /\ mid_error' = "MID_ALL_GOOD" => mid_error = "MID_ALL_GOOD" /\ ~Refused(n)
      /\ Refused(n) => mid_error' = EvalError(n)
      /\ ~Refused(n) => mid_error' = mid_error
      /\ expr' = expr

Returns(T) ==
  LET s == Simplified(calls[1].node)
  IN  \/ Len(calls) = 1 /\ calls' = << >> /\ tree' = s /\ mstage' = "optimize"
      \/ /\ 2 \in 1..Len(calls) /\ OnSides(calls[2], T) /\ calls[2].todo # {}
         /\ Popped(calls, Resumed(calls[2], s), calls')
         /\ tree' = tree /\ mstage' = "simplify"

LEMMA SimplifyStep ==
  ASSUME NEW T, Closed(T), WalkTypeOK(T), Simplify
  PROVE  Ends(T) /\ Returns(T)
<1> DEFINE n == calls[1].node
           s == Simplified(n)
<1>1. mstage = "simplify" /\ IsSeq(calls) /\ calls # << >>
  BY DEF Simplify, WalkTypeOK
<1>2. /\ Len(calls) \in Nat /\ 1 \in 1..Len(calls) /\ Head(calls) = calls[1]
      /\ IsSeq(Tail(calls)) /\ Len(Tail(calls)) = Len(calls) - 1
      /\ \A k \in 1..Len(Tail(calls)) : k + 1 \in 1..Len(calls) /\ Tail(calls)[k] = calls[k + 1]
  BY <1>1, Beheaded
<1>3. n \in T
  BY <1>2 DEF WalkTypeOK, OnSides
<1>4. s \in T
  BY <1>3, KindsOfSimplified
<1>5. /\ calls[1].todo = {}
      /\ Return(s)
      /\ change_flag' = (change_flag \/ Foldable(n) \/ s # FoldConsts(n))
      /\ mid_error' = IF Foldable(n) /\ EvalError(n) # "MID_ALL_GOOD"
                      THEN EvalError(n) ELSE mid_error
      /\ expr' = expr
  BY <1>2 DEF Simplify, Simplified
<1>6. ~change_flag' => ~Foldable(n) /\ SolveTrivialExpr(n) = n /\ s = n
  BY <1>5 DEF Simplified, FoldConsts
<1>7. Ends(T)
  <2>1. change_flag \in BOOLEAN
    BY DEF WalkTypeOK
  <2>2. change_flag' \in BOOLEAN /\ (change_flag => change_flag')
    BY <1>5, <2>1
  <2>3. mid_error' = "MID_ALL_GOOD" => mid_error = "MID_ALL_GOOD" /\ ~Refused(n)
    BY <1>5 DEF Refused
  <2>4. /\ Refused(n) => mid_error' = EvalError(n)
        /\ ~Refused(n) => mid_error' = mid_error
    BY <1>5 DEF Refused
  <2> QED BY <1>2, <1>3, <1>4, <1>5, <1>6, <2>2, <2>3, <2>4 DEF Ends
<1>8. Returns(T)
  <2>1. CASE Len(calls) = 1
    BY <1>5, <2>1 DEF Return, Returns
  <2>2. CASE Len(calls) # 1
    <3>1. /\ calls' = [Tail(calls) EXCEPT ![1] = Resumed(Tail(calls)[1], s)]
          /\ tree' = tree /\ mstage' = mstage
      BY <1>5, <2>2 DEF Return
    <3>2. 1 \in 1..Len(Tail(calls)) /\ 2 \in 1..Len(calls) /\ 1 + 1 = 2 /\ 2 # 1
      <4>1. Len(calls) \in Nat /\ 1 \in 1..Len(calls) /\ Len(Tail(calls)) = Len(calls) - 1
        BY <1>2
      <4> HIDE DEF n, s
      <4> QED BY <2>2, <4>1
    <3>3. Tail(calls)[1] = calls[2]
      BY <1>2, <3>2
    <3>4. OnSides(calls[2], T) /\ calls[2].todo # {}
      BY <3>2 DEF WalkTypeOK
    <3>5. Popped(calls, Resumed(calls[2], s), calls')
      BY <1>1, <2>2, <3>1, <3>3, PoppedCall
    <3> QED BY <1>1, <3>1, <3>2, <3>4, <3>5 DEF Returns
  <2> QED BY <2>1, <2>2
<1> QED BY <1>7, <1>8

LEMMA PassStep ==
  ASSUME NEW T, Closed(T), WalkTypeOK(T), Pass
  PROVE  /\ IsSeq(calls') /\ calls' # << >> /\ Len(calls') = 1 /\ calls'[1] = Activation(tree)
         /\ OnSides(Activation(tree), T)
<1> DEFINE first == << Activation(tree) >>
<1>1. IsSeq(first) /\ Len(first) = 1 /\ first[1] = Activation(tree)
  BY Short
<1>2. first # << >>
  BY <1>1, Short
<1>3. calls' = first
  BY DEF Pass
<1>4. OnSides(Activation(tree), T)
  BY OfActivation DEF WalkTypeOK
<1> HIDE DEF first
<1> QED BY <1>1, <1>2, <1>3, <1>4

LEMMA WalkTypes ==
  ASSUME NEW T, Closed(T), Exprs \subseteq T
  PROVE  MSpec => []WalkTypeOK(T)
<1>1. MInit => WalkTypeOK(T)
  <2>1. IsSeq(<< >>) /\ Len(<< >>) = 0
    BY Short
  <2> QED BY <2>1 DEF MInit, BeginWith, WalkTypeOK
<1>2. WalkTypeOK(T) /\ [MNext]_mvars => WalkTypeOK(T)'
  <2> SUFFICES ASSUME WalkTypeOK(T), [MNext]_mvars
               PROVE  WalkTypeOK(T)'
    OBVIOUS
  <2>1. CASE Pass
    <3>1. /\ IsSeq(calls') /\ calls' # << >> /\ Len(calls') = 1 /\ calls'[1] = Activation(tree)
          /\ OnSides(Activation(tree), T)
      BY <2>1, PassStep
    <3>2. \A k \in 1..Len(calls') : k = 1
      BY <3>1
    <3> QED BY <2>1, <3>1, <3>2 DEF Pass, WalkTypeOK
  <2>2. CASE Descend
    <3> DEFINE child == Child(calls[1])
    <3>1. /\ 1 \in 1..Len(calls) /\ OnSides(calls[1], T) /\ calls[1].todo # {}
          /\ child \in T /\ Pushed(calls, Activation(child), calls')
      BY <2>2, DescendStep
    <3>2. OnSides(Activation(child), T)
      BY <3>1, OfActivation
    <3> HIDE DEF child
    <3>3. ASSUME NEW k \in 1..Len(calls')
          PROVE  OnSides(calls'[k], T) /\ (k # 1 => calls'[k].todo # {})
      <4>1. CASE k = 1
        BY <3>1, <3>2, <4>1 DEF Pushed
      <4>2. CASE k # 1
        <5>1. k - 1 \in 1..Len(calls) /\ calls'[k] = calls[k - 1]
          BY <3>1, <4>2 DEF Pushed
        <5> QED BY <3>1, <5>1 DEF WalkTypeOK
      <4> QED BY <4>1, <4>2
    <3>4. IsSeq(calls') /\ calls' # << >>
      BY <3>1 DEF Pushed
    <3> QED BY <2>2, <3>3, <3>4 DEF Descend, WalkTypeOK
  <2>3. CASE Simplify
    <3> DEFINE s == Simplified(calls[1].node)
    <3>1. Ends(T) /\ Returns(T)
      BY <2>3, SimplifyStep
    <3>2. s \in T /\ change_flag' \in BOOLEAN /\ expr' = expr
      BY <3>1 DEF Ends
    <3>3. CASE Len(calls) = 1 /\ calls' = << >> /\ tree' = s /\ mstage' = "optimize"
      <4>1. IsSeq(<< >>) /\ Len(<< >>) = 0
        BY Short
      <4> QED BY <3>2, <3>3, <4>1 DEF WalkTypeOK
    <3>4. CASE /\ 2 \in 1..Len(calls) /\ OnSides(calls[2], T) /\ calls[2].todo # {}
               /\ Popped(calls, Resumed(calls[2], s), calls')
               /\ tree' = tree /\ mstage' = "simplify"
      <4>1. OnSides(Resumed(calls[2], s), T)
        BY <3>2, <3>4, OfCalls
      <4>2. ASSUME NEW k \in 1..Len(calls')
            PROVE  OnSides(calls'[k], T) /\ (k # 1 => calls'[k].todo # {})
        <5>1. CASE k = 1
          BY <3>4, <4>1, <5>1 DEF Popped
        <5>2. CASE k # 1
          <6>1. k + 1 \in 1..Len(calls) /\ calls'[k] = calls[k + 1] /\ k + 1 # 1
            BY <3>4, <5>2 DEF Popped
          <6> QED BY <6>1 DEF WalkTypeOK
        <5> QED BY <5>1, <5>2
      <4>3. IsSeq(calls') /\ calls' # << >>
        BY <3>4 DEF Popped
      <4> QED BY <3>2, <3>4, <4>2, <4>3 DEF WalkTypeOK
    <3> QED BY <3>1, <3>3, <3>4 DEF Returns
  <2>4. CASE Optimized
    BY <2>4 DEF Optimized, WalkTypeOK
  <2>5. CASE UNCHANGED mvars
    BY <2>5 DEF mvars, WalkTypeOK
  <2> QED BY <2>1, <2>2, <2>3, <2>4, <2>5 DEF MNext
<1> QED BY <1>1, <1>2, PTL DEF MSpec
-------------------------------------------------------------------------------
(* The tree that an activation was called with, as it still stands in the  *)
(* node of the activation that waits for it.                               *)
OriginIn(cs, t, k) == IF k = Len(cs) THEN t ELSE Child(cs[k + 1])

OneDeeper(cs, ds, t) ==
  /\ OriginIn(ds, t, 1) = Child(cs[1])
  /\ \A k \in 1..Len(ds) :
       k # 1 => k - 1 \in 1..Len(cs) /\ OriginIn(ds, t, k) = OriginIn(cs, t, k - 1)

LEMMA PushedOrigins ==
  ASSUME NEW cs, NEW c, NEW ds, NEW t, 1 \in 1..Len(cs), Len(cs) \in Nat, Pushed(cs, c, ds)
  PROVE  OneDeeper(cs, ds, t)
<1>1. /\ Len(ds) = Len(cs) + 1
      /\ \A k \in 1..Len(ds) : k # 1 => k - 1 \in 1..Len(cs) /\ ds[k] = cs[k - 1]
  BY DEF Pushed
<1>2. 2 \in 1..Len(ds) /\ 1 # Len(ds) /\ 2 # 1 /\ 2 - 1 = 1 /\ 1 + 1 = 2
  BY <1>1
<1>3. ds[2] = cs[1]
  BY <1>1, <1>2
<1>4. ASSUME NEW k \in 1..Len(ds), k # 1
      PROVE  OriginIn(ds, t, k) = OriginIn(cs, t, k - 1)
  <2>1. k = Len(ds) <=> k - 1 = Len(cs)
    BY <1>1
  <2>2. k # Len(ds) => k + 1 \in 1..Len(ds) /\ k + 1 # 1 /\ (k + 1) - 1 = k /\ (k - 1) + 1 = k
    BY <1>1
  <2>3. k # Len(ds) => ds[k + 1] = cs[(k - 1) + 1]
    BY <1>1, <2>2
  <2> QED BY <2>1, <2>3 DEF OriginIn
<1>5. OriginIn(ds, t, 1) = Child(cs[1])
  BY <1>2, <1>3 DEF OriginIn
<1> QED BY <1>1, <1>4, <1>5 DEF OneDeeper

OneHigher(cs, ds, t) ==
  \A k \in 1..Len(ds) :
    k + 1 \in 1..Len(cs) /\ OriginIn(ds, t, k) = OriginIn(cs, t, k + 1)

LEMMA PoppedOrigins ==
  ASSUME NEW cs, NEW c, NEW ds, NEW t, Len(cs) \in Nat, Popped(cs, c, ds)
  PROVE  OneHigher(cs, ds, t)
<1>1. /\ Len(ds) = Len(cs) - 1
      /\ \A k \in 1..Len(ds) : k + 1 \in 1..Len(cs) /\ (k # 1 => ds[k] = cs[k + 1])
  BY DEF Popped
<1>2. ASSUME NEW k \in 1..Len(ds)
      PROVE  OriginIn(ds, t, k) = OriginIn(cs, t, k + 1)
  <2>1. k = Len(ds) <=> k + 1 = Len(cs)
    BY <1>1
  <2>2. k # Len(ds) => k + 1 \in 1..Len(ds) /\ k + 1 # 1
    BY <1>1
  <2>3. k # Len(ds) => ds[k + 1] = cs[(k + 1) + 1]
    BY <1>1, <2>2
  <2> QED BY <2>1, <2>3 DEF OriginIn
<1> QED BY <1>1, <1>2 DEF OneHigher

(* A relation R of a tree and what may become of it: it holds of a tree    *)
(* itself, of what becomes of it in two steps, and of what becomes of it   *)
(* by a change of a child.                                                 *)
Compositional(R, T) ==
  /\ \A n \in T : <<n, n>> \in R
  /\ \A a, b, c \in T : <<a, b>> \in R /\ <<b, c>> \in R => <<a, c>> \in R
  /\ \A n, c \in T :
       /\ n.left \in T /\ <<n.left, c>> \in R => <<n, Node(n.type, n.value, c, n.right)>> \in R
       /\ n.right \in T /\ <<n.right, c>> \in R => <<n, Node(n.type, n.value, n.left, c)>> \in R

LEMMA ResumedIsRelated ==
  ASSUME NEW T, Closed(T), NEW R, Compositional(R, T),
         NEW call, OnSides(call, T), call.todo # {}, NEW c \in T, <<Child(call), c>> \in R
  PROVE  <<call.node, Resumed(call, c).node>> \in R
<1>1. /\ call.node \in T
      /\ "left" \in call.todo => call.node.left \in T
      /\ "left" \notin call.todo => call.node.right \in T
  BY DEF OnSides
<1>2. CASE "left" \in call.todo
  <2>1. Child(call) = call.node.left
    BY <1>2 DEF Child
  <2>2. Resumed(call, c).node = Node(call.node.type, call.node.value, c, call.node.right)
    BY <1>2 DEF Resumed
  <2> QED BY <1>1, <1>2, <2>1, <2>2 DEF Compositional
<1>3. CASE "left" \notin call.todo
  <2>1. Child(call) = call.node.right
    BY <1>3 DEF Child
  <2>2. Resumed(call, c).node = Node(call.node.type, call.node.value, call.node.left, c)
    BY <1>3 DEF Resumed
  <2> QED BY <1>1, <1>3, <2>1, <2>2 DEF Compositional
<1> QED BY <1>2, <1>3

Related(R, always) ==
  always \/ mid_error = "MID_ALL_GOOD" =>
    /\ <<expr, tree>> \in R
    /\ \A k \in 1..Len(calls) : <<OriginIn(calls, tree, k), calls[k].node>> \in R

LEMMA OriginsAreTrees ==
  ASSUME NEW T, Closed(T), WalkTypeOK(T), NEW k \in 1..Len(calls)
  PROVE  OriginIn(calls, tree, k) \in T /\ calls[k].node \in T
<1>1. IsSeq(calls) /\ tree \in T
  BY DEF WalkTypeOK
<1>2. Len(calls) \in Nat
  BY <1>1 DEF IsSeq
<1>3. calls[k].node \in T
  BY DEF WalkTypeOK, OnSides
<1>4. CASE k = Len(calls)
  BY <1>1, <1>3, <1>4 DEF OriginIn
<1>5. CASE k # Len(calls)
  <2>1. k + 1 \in 1..Len(calls) /\ k + 1 # 1
    BY <1>2, <1>5
  <2>2. OnSides(calls[k + 1], T) /\ calls[k + 1].todo # {}
    BY <2>1 DEF WalkTypeOK
  <2>3. Child(calls[k + 1]) \in T
    BY <2>2, OfCalls
  <2> QED BY <1>3, <1>5, <2>3 DEF OriginIn
<1> QED BY <1>4, <1>5

LEMMA ChangesAreRelated ==
  ASSUME NEW T, Closed(T), Exprs \subseteq T,
         NEW R, Compositional(R, T), NEW always \in BOOLEAN,
         \A n \in T : always \/ ~Refused(n) => <<n, Simplified(n)>> \in R
  PROVE  MSpec => []Related(R, always)
<1>1. MInit => Related(R, always)
  <2>1. Len(<< >>) = 0
    BY Short
  <2> QED BY <2>1 DEF MInit, BeginWith, Related, Compositional
<1>2. WalkTypeOK(T) /\ WalkTypeOK(T)' /\ Related(R, always) /\ [MNext]_mvars
        => Related(R, always)'
  <2> SUFFICES ASSUME WalkTypeOK(T), WalkTypeOK(T)', Related(R, always), [MNext]_mvars,
                      always \/ mid_error' = "MID_ALL_GOOD"
               PROVE  /\ <<expr', tree'>> \in R
                      /\ \A k \in 1..Len(calls') :
                           <<OriginIn(calls', tree', k), calls'[k].node>> \in R
    BY DEF Related, OriginIn
  <2>0. /\ IsSeq(calls) /\ tree \in T /\ expr \in T
        /\ Len(calls) \in Nat
    BY DEF WalkTypeOK, IsSeq
  <2>1. CASE Pass
    <3>1. Len(calls') = 1 /\ calls'[1] = Activation(tree)
      BY <2>1, PassStep
    <3>2. Activation(tree).node = tree
      BY <2>0, OfActivation
    <3>3. expr' = expr /\ tree' = tree /\ mid_error' = mid_error
      BY <2>1 DEF Pass
    <3>4. ASSUME NEW k \in 1..Len(calls')
          PROVE  <<OriginIn(calls', tree', k), calls'[k].node>> \in R
      <4>1. k = 1
        BY <3>1
      <4> QED BY <2>0, <3>1, <3>2, <3>3, <4>1 DEF OriginIn, Compositional
    <3> QED BY <3>3, <3>4 DEF Related
  <2>2. CASE Descend
    <3> DEFINE child == Child(calls[1])
    <3>1. /\ 1 \in 1..Len(calls) /\ child \in T /\ Pushed(calls, Activation(child), calls')
      BY <2>2, DescendStep
    <3>2. Activation(child).node = child
      BY <3>1, OfActivation
    <3>3. expr' = expr /\ tree' = tree /\ mid_error' = mid_error
      BY <2>2 DEF Descend
    <3>4. /\ OriginIn(calls', tree, 1) = child
          /\ \A k \in 1..Len(calls') :
               k # 1 => /\ k - 1 \in 1..Len(calls)
                        /\ OriginIn(calls', tree, k) = OriginIn(calls, tree, k - 1)
      <4>1. OneDeeper(calls, calls', tree)
        BY <2>0, <3>1, PushedOrigins
      <4> QED BY <4>1 DEF OneDeeper
    <3> HIDE DEF child
    <3>5. ASSUME NEW k \in 1..Len(calls')
          PROVE  <<OriginIn(calls', tree, k), calls'[k].node>> \in R
      <4>1. CASE k = 1
        <5>1. calls'[k].node = child
          BY <3>1, <3>2, <4>1 DEF Pushed
        <5> QED BY <3>1, <3>4, <4>1, <5>1 DEF Compositional
      <4>2. CASE k # 1
        <5>1. k - 1 \in 1..Len(calls) /\ calls'[k] = calls[k - 1]
          BY <3>1, <4>2 DEF Pushed
        <5> QED BY <3>3, <3>4, <4>2, <5>1 DEF Related
      <4> QED BY <4>1, <4>2
    <3> QED BY <3>3, <3>5 DEF Related
  <2>3. CASE Simplify
    <3> DEFINE n == calls[1].node
               s == Simplified(n)
               origin == OriginIn(calls, tree, 1)
    <3>1. Ends(T) /\ Returns(T)
      BY <2>3, SimplifyStep
    <3>2. /\ 1 \in 1..Len(calls) /\ n \in T /\ s \in T /\ expr' = expr
          /\ mid_error' = "MID_ALL_GOOD" => mid_error = "MID_ALL_GOOD" /\ ~Refused(n)
      BY <3>1 DEF Ends
    <3>3. /\ always \/ mid_error = "MID_ALL_GOOD"
          /\ <<n, s>> \in R
      BY <3>2
    <3>4. <<expr, tree>> \in R /\ <<origin, n>> \in R
      BY <3>2, <3>3 DEF Related
    <3>5. origin \in T
      BY <3>2, OriginsAreTrees
    <3> HIDE DEF n, s, origin
    <3>6. <<origin, s>> \in R
      BY <3>2, <3>3, <3>4, <3>5 DEF Compositional
    <3>7. CASE Len(calls) = 1 /\ calls' = << >> /\ tree' = s /\ mstage' = "optimize"
      <4>1. origin = tree
        BY <3>7 DEF origin, OriginIn
      <4>2. <<expr, s>> \in R
        BY <2>0, <3>2, <3>4, <3>6, <4>1 DEF Compositional
      <4>3. Len(<< >>) = 0
        BY Short
      <4> QED BY <3>2, <3>7, <4>2, <4>3
    <3>8. CASE /\ 2 \in 1..Len(calls) /\ OnSides(calls[2], T) /\ calls[2].todo # {}
               /\ Popped(calls, Resumed(calls[2], s), calls')
               /\ tree' = tree /\ mstage' = "simplify"
      <4>1. 1 # Len(calls) /\ 1 + 1 = 2 /\ 2 # 1
        BY <2>0, <3>8
      <4>2. origin = Child(calls[2])
        BY <4>1 DEF origin, OriginIn
      <4>3. <<calls[2].node, Resumed(calls[2], s).node>> \in R
        BY <3>2, <3>6, <3>8, <4>2, ResumedIsRelated
      <4>4. <<OriginIn(calls, tree, 2), calls[2].node>> \in R
        BY <3>3, <3>8 DEF Related
      <4>5. OriginIn(calls, tree, 2) \in T /\ calls[2].node \in T
        BY <3>8, OriginsAreTrees
      <4>6. Resumed(calls[2], s).node \in T
        BY <3>2, <3>8, OfCalls DEF OnSides
      <4>7. \A k \in 1..Len(calls') :
              k + 1 \in 1..Len(calls) /\ OriginIn(calls', tree, k) = OriginIn(calls, tree, k + 1)
        <5>1. OneHigher(calls, calls', tree)
          BY <2>0, <3>8, PoppedOrigins
        <5> QED BY <3>8, <5>1 DEF OneHigher
      <4>8. ASSUME NEW k \in 1..Len(calls')
            PROVE  <<OriginIn(calls', tree, k), calls'[k].node>> \in R
        <5>1. CASE k = 1
          <6>1. calls'[k] = Resumed(calls[2], s) /\ OriginIn(calls', tree, k) = OriginIn(calls, tree, 2)
            BY <3>8, <4>1, <4>7, <5>1 DEF Popped
          <6> QED BY <4>3, <4>4, <4>5, <4>6, <6>1 DEF Compositional
        <5>2. CASE k # 1
          <6>1. k + 1 \in 1..Len(calls) /\ calls'[k] = calls[k + 1]
            BY <3>8, <5>2 DEF Popped
          <6> QED BY <3>3, <4>7, <6>1 DEF Related
        <5> QED BY <5>1, <5>2
      <4> QED BY <3>2, <3>4, <3>8, <4>8
    <3>9. Returns(T) = (\/ Len(calls) = 1 /\ calls' = << >> /\ tree' = s /\ mstage' = "optimize"
                        \/ /\ 2 \in 1..Len(calls) /\ OnSides(calls[2], T) /\ calls[2].todo # {}
                           /\ Popped(calls, Resumed(calls[2], s), calls')
                           /\ tree' = tree /\ mstage' = "simplify")
      BY DEF Returns, n, s
    <3> QED BY <3>1, <3>7, <3>8, <3>9
  <2>4. CASE Optimized
    BY <2>4 DEF Optimized, Related
  <2>5. CASE UNCHANGED mvars
    BY <2>5 DEF mvars, Related
  <2> QED BY <2>1, <2>2, <2>3, <2>4, <2>5 DEF MNext
<1> QED BY <1>1, <1>2, WalkTypes, PTL DEF MSpec
-------------------------------------------------------------------------------
(* A node that has a value has one for each child.                         *)
LEMMA ValuesBelow ==
  ASSUME NEW T, Closed(T), ValuesOfParts(T), NEW env \in Envs, NEW n \in T,
         Value(n, env) # Undefined
  PROVE  Value(n.left, env) # Undefined /\ Value(n.right, env) # Undefined
<1>1. ValueOfParts(n, T, env)
  BY DEF ValuesOfParts
<1>2. CASE IsNum(n)
  <2>1. n.left = NoNode /\ n.right = NoNode
    BY <1>2 DEF Closed, IsNum
  <2>2. Value(NoNode, env) \in Numbers /\ Undefined \notin Numbers
    BY SimplificationConstants DEF ValuesOfParts
  <2> QED BY <2>1, <2>2
<1>3. CASE IsOp(n, Arithmetic)
  <2>1. Undefined \notin Numbers
    BY SimplificationConstants
  <2>2. Value(n, env) = Given(Applied(n.value, Value(n.left, env), Value(n.right, env)))
    BY <1>1, <1>3 DEF ValueOfParts
  <2>3. Applied(n.value, Value(n.left, env), Value(n.right, env)) # Undefined
    BY <2>1, <2>2 DEF Given
  <2> QED BY <2>3 DEF Applied
<1>4. CASE ~IsNum(n) /\ ~IsOp(n, Arithmetic)
  BY <1>1, <1>4 DEF ValueOfParts
<1> QED BY <1>2, <1>3, <1>4

(* A node has the value of any other of its type and name whose children   *)
(* have the values of its children.                                        *)
LEMMA ValueByChildren ==
  ASSUME NEW T, Closed(T), ValuesOfParts(T), NEW env \in Envs, NEW n \in T, NEW m \in T,
         m.type = n.type, m.value = n.value,
         Value(m.left, env) = Value(n.left, env), Value(m.right, env) = Value(n.right, env)
  PROVE  Value(m, env) = Value(n, env)
<1>1. ValueOfParts(n, T, env) /\ ValueOfParts(m, T, env)
  BY DEF ValuesOfParts
<1>2. IsNum(m) = IsNum(n) /\ IsOp(m, Arithmetic) = IsOp(n, Arithmetic)
  BY DEF IsNum, IsOp
<1>3. CASE IsNum(n)
  BY <1>1, <1>2, <1>3 DEF ValueOfParts
<1>4. CASE IsOp(n, Arithmetic)
  BY <1>1, <1>2, <1>4 DEF ValueOfParts
<1>5. CASE ~IsNum(n) /\ ~IsOp(n, Arithmetic)
  BY <1>1, <1>5 DEF ValueOfParts
<1> QED BY <1>3, <1>4, <1>5

Keeps(a, b) ==
  \A env \in Envs : Value(a, env) # Undefined => Value(b, env) = Value(a, env)

Kept(T) == {p \in T \X T : Keeps(p[1], p[2])}

LEMMA KeptIsCompositional ==
  ASSUME NEW T, Closed(T), ValuesOfParts(T)
  PROVE  Compositional(Kept(T), T)
<1>1. \A n \in T : <<n, n>> \in Kept(T)
  BY DEF Kept, Keeps
<1>2. \A a, b, c \in T :
        <<a, b>> \in Kept(T) /\ <<b, c>> \in Kept(T) => <<a, c>> \in Kept(T)
  BY DEF Kept, Keeps
<1>3. ASSUME NEW n \in T, NEW c \in T, n.left \in T, <<n.left, c>> \in Kept(T)
      PROVE  <<n, Node(n.type, n.value, c, n.right)>> \in Kept(T)
  <2> DEFINE m == Node(n.type, n.value, c, n.right)
  <2>1. m \in T
    BY <1>3 DEF Closed
  <2>2. m.type = n.type /\ m.value = n.value /\ m.left = c /\ m.right = n.right
    BY DEF Node
  <2> HIDE DEF m
  <2>3. ASSUME NEW env \in Envs, Value(n, env) # Undefined
        PROVE  Value(m, env) = Value(n, env)
    <3>1. Value(n.left, env) # Undefined
      BY <2>3, ValuesBelow
    <3>2. Value(c, env) = Value(n.left, env)
      BY <1>3, <3>1 DEF Kept, Keeps
    <3> QED BY <2>1, <2>2, <3>2, ValueByChildren
  <2>4. <<n, m>> \in Kept(T)
    BY <2>1, <2>3 DEF Kept, Keeps
  <2> QED BY <2>4 DEF m
<1>4. ASSUME NEW n \in T, NEW c \in T, n.right \in T, <<n.right, c>> \in Kept(T)
      PROVE  <<n, Node(n.type, n.value, n.left, c)>> \in Kept(T)
  <2> DEFINE m == Node(n.type, n.value, n.left, c)
  <2>1. m \in T
    BY <1>4 DEF Closed
  <2>2. m.type = n.type /\ m.value = n.value /\ m.left = n.left /\ m.right = c
    BY DEF Node
  <2> HIDE DEF m
  <2>3. ASSUME NEW env \in Envs, Value(n, env) # Undefined
        PROVE  Value(m, env) = Value(n, env)
    <3>1. Value(n.right, env) # Undefined
      BY <2>3, ValuesBelow
    <3>2. Value(c, env) = Value(n.right, env)
      BY <1>4, <3>1 DEF Kept, Keeps
    <3> QED BY <2>1, <2>2, <3>2, ValueByChildren
  <2>4. <<n, m>> \in Kept(T)
    BY <2>1, <2>3 DEF Kept, Keeps
  <2> QED BY <2>4 DEF m
<1> QED BY <1>1, <1>2, <1>3, <1>4 DEF Compositional

(* The values of a tree are a meaning of its nodes, to which the theorems  *)
(* about one node apply.                                                   *)
LEMMA ValuesAreMeanings ==
  ASSUME NEW T, Closed(T), ValuesOfParts(T), NEW env \in Envs, NEW n \in T,
         NEW V, V = [m \in T \cup {NoNode} |-> Value(m, env)]
  PROVE  Meaning(V, n)
<1>1. Value(NoNode, env) \in Numbers /\ NoNode.type \notin {"NUM", "VAR"}
  BY DEF ValuesOfParts, NoNode
<1>2. \A m \in T : ValueOfParts(m, T, env) /\ V[m] = Value(m, env)
  BY DEF ValuesOfParts
<1>3. n.left \in T \cup {NoNode} /\ n.right \in T \cup {NoNode} /\ V[NoNode] = Value(NoNode, env)
  BY DEF Closed
<1>4. \A v \in Numbers : V[Constant(v)] = v
  <2> TAKE v \in Numbers
  <2>1. Constant(v) \in T
    BY DEF Closed
  <2>2. IsNum(Constant(v)) /\ Constant(v).value = v
    BY OfConstants DEF IsNum
  <2>3. V[Constant(v)] = Given(v)
    BY <1>2, <2>1, <2>2 DEF ValueOfParts
  <2> QED BY <2>3 DEF Given
<1>5. V[n.left] \in Values /\ V[n.right] \in Values
  <2>1. \A m \in T : V[m] \in Values
    BY <1>2 DEF ValueOfParts
  <2>2. V[NoNode] \in Values
    BY <1>1, <1>3 DEF Values
  <2> QED BY <1>3, <2>1, <2>2
<1>6. \A m \in T \cup {NoNode} : IsNum(m) => m \in T /\ V[m] = Given(m.value)
  BY <1>1, <1>2 DEF IsNum, ValueOfParts
<1>7. ASSUME n.left.type = "VAR", n.right.type = "VAR", n.left.value = n.right.value
      PROVE  V[n.left] = V[n.right]
  <2>1. n.left \in T /\ n.right \in T
    BY <1>1, <1>3, <1>7
  <2>2. /\ n.left = Node("VAR", n.left.value, NoNode, NoNode)
        /\ n.right = Node("VAR", n.right.value, NoNode, NoNode)
    BY <1>7, <2>1 DEF Closed
  <2>3. n.left = n.right
    BY <1>7, <2>2
  <2> QED BY <2>3
<1>8. ASSUME IsOp(n, Arithmetic), V[n] # Undefined
      PROVE  V[n] = Applied(n.value, V[n.left], V[n.right])
  <2>1. n.left \in T /\ n.right \in T
    BY <1>8 DEF Closed
  <2>2. V[n] = Given(Applied(n.value, Value(n.left, env), Value(n.right, env)))
    BY <1>2, <1>8 DEF ValueOfParts
  <2>3. V[n.left] = Value(n.left, env) /\ V[n.right] = Value(n.right, env)
    BY <1>2, <2>1
  <2> QED BY <1>8, <2>2, <2>3 DEF Given
<1> QED BY <1>3, <1>4, <1>5, <1>6, <1>7, <1>8 DEF Meaning, Given

LEMMA SimplifyingKeepsTheValue ==
  ASSUME NEW T, Closed(T), ValuesOfParts(T), NEW n \in T, ~Refused(n)
  PROVE  <<n, Simplified(n)>> \in Kept(T)
<1>1. Simplified(n) \in T
  BY KindsOfSimplified
<1>2. ASSUME NEW env \in Envs, Value(n, env) # Undefined
      PROVE  Value(Simplified(n), env) = Value(n, env)
  <2> DEFINE V == [m \in T \cup {NoNode} |-> Value(m, env)]
  <2>1. Meaning(V, n)
    BY ValuesAreMeanings
  <2>2. V[n] = Value(n, env) /\ V[Simplified(n)] = Value(Simplified(n), env)
    BY <1>1
  <2> HIDE DEF V
  <2>3. V[n] # Undefined
    BY <1>2, <2>2
  <2>4. CASE Foldable(n)
    <3>1. IsOp(n, Arithmetic)
      BY <2>4 DEF Refused, EvalError
    <3>2. Value(n, env) \in Numbers
      BY <1>2 DEF ValuesOfParts, ValueOfParts, Values
    <3>3. V[FoldConsts(n)] = V[n]
      BY <2>1, <2>2, <3>1, <3>2, FoldingKeepsTheValue
    <3>4. Simplified(n) = FoldConsts(n)
      BY <2>4, OfConstants DEF Simplified, FoldConsts
    <3> QED BY <2>2, <3>3, <3>4
  <2>5. CASE ~Foldable(n)
    <3>1. Simplified(n) = SolveTrivialExpr(n)
      BY <2>5 DEF Simplified, FoldConsts
    <3> QED BY <2>1, <2>2, <2>3, <3>1, SolvingKeepsTheValue
  <2> QED BY <2>4, <2>5
<1> QED BY <1>1, <1>2 DEF Kept, Keeps

(* Whatever is folded, dropped or lifted over however many passes over a   *)
(* tree of any size: if optimize() accepts it, the tree that is left has   *)
(* the value of the one it was given, for all variables and results of     *)
(* calls with which that has one.                                          *)
THEOREM OptimizeKeepsTheValue ==
  ASSUME NEW T, Closed(T), Exprs \subseteq T, ValuesOfParts(T)
  PROVE  MSpec => []ValueKept
<1>1. PICK R : R = Kept(T)
  OBVIOUS
<1>2. PICK always \in BOOLEAN : ~always
  OBVIOUS
<1>3. Compositional(R, T)
  BY <1>1, KeptIsCompositional
<1>4. \A n \in T : always \/ ~Refused(n) => <<n, Simplified(n)>> \in R
  BY <1>1, <1>2, SimplifyingKeepsTheValue
<1>5. MSpec => []Related(R, always)
  BY <1>3, <1>4, ChangesAreRelated
<1>6. Related(R, always) => ValueKept
  BY <1>1, <1>2 DEF Related, Kept, Keeps, ValueKept, Accepted
<1> QED BY <1>5, <1>6, PTL
-------------------------------------------------------------------------------
(* What an activation is about is related to the tree that was given, too, *)
(* by a relation that goes on to the children.                             *)
Since(Q, always) ==
  always \/ mid_error = "MID_ALL_GOOD" =>
    \A k \in 1..Len(calls) : <<expr, calls[k].node>> \in Q

Onward(Q, R, T) ==
  /\ \A a, b \in T : <<a, b>> \in R => <<a, b>> \in Q
  /\ \A a, b, c \in T : <<a, b>> \in Q /\ <<b, c>> \in R => <<a, c>> \in Q
  /\ \A a, b \in T :
       <<a, b>> \in Q =>
         /\ b.left \in T => <<a, b.left>> \in Q
         /\ b.right \in T => <<a, b.right>> \in Q

LEMMA ChangesSince ==
  ASSUME NEW T, Closed(T), Exprs \subseteq T,
         NEW R, Compositional(R, T), NEW always \in BOOLEAN,
         \A n \in T : always \/ ~Refused(n) => <<n, Simplified(n)>> \in R,
         NEW Q, Onward(Q, R, T)
  PROVE  MSpec => []Since(Q, always)
<1>1. MInit => Since(Q, always)
  <2>1. Len(<< >>) = 0
    BY Short
  <2> QED BY <2>1 DEF MInit, BeginWith, Since
<1>2. WalkTypeOK(T) /\ Related(R, always) /\ Since(Q, always) /\ [MNext]_mvars
        => Since(Q, always)'
  <2> SUFFICES ASSUME WalkTypeOK(T), Related(R, always), Since(Q, always), [MNext]_mvars,
                      always \/ mid_error' = "MID_ALL_GOOD",
                      NEW k \in 1..Len(calls')
               PROVE  <<expr', calls'[k].node>> \in Q
    BY DEF Since
  <2>0. tree \in T /\ expr \in T
    BY DEF WalkTypeOK
  <2>1. CASE Pass
    <3>1. Len(calls') = 1 /\ calls'[1] = Activation(tree)
      BY <2>1, PassStep
    <3>2. Activation(tree).node = tree
      BY <2>0, OfActivation
    <3>3. expr' = expr /\ mid_error' = mid_error
      BY <2>1 DEF Pass
    <3>4. <<expr, tree>> \in R
      BY <3>3 DEF Related
    <3>5. k = 1
      BY <3>1
    <3> QED BY <2>0, <3>1, <3>2, <3>3, <3>4, <3>5 DEF Onward
  <2>2. CASE Descend
    <3> DEFINE child == Child(calls[1])
    <3>1. /\ 1 \in 1..Len(calls) /\ OnSides(calls[1], T) /\ calls[1].todo # {}
          /\ child \in T /\ Pushed(calls, Activation(child), calls')
      BY <2>2, DescendStep
    <3>2. Activation(child).node = child
      BY <3>1, OfActivation
    <3>3. expr' = expr /\ mid_error' = mid_error
      BY <2>2 DEF Descend
    <3>4. CASE k = 1
      <4>1. <<expr, calls[1].node>> \in Q /\ calls[1].node \in T
        BY <3>1, <3>3 DEF Since, OnSides
      <4>2. child = calls[1].node.left \/ child = calls[1].node.right
        BY DEF Child
      <4>3. <<expr, child>> \in Q
        <5> DEFINE b == calls[1].node
        <5>1. <<expr, b>> \in Q /\ b \in T /\ (child = b.left \/ child = b.right)
          BY <4>1, <4>2
        <5> HIDE DEF b, child
        <5> QED BY <2>0, <3>1, <5>1 DEF Onward
      <4>4. calls'[k].node = child
        BY <3>1, <3>2, <3>4 DEF Pushed
      <4> QED BY <3>3, <4>3, <4>4
    <3>5. CASE k # 1
      <4>1. k - 1 \in 1..Len(calls) /\ calls'[k] = calls[k - 1]
        BY <3>1, <3>5 DEF Pushed
      <4> QED BY <3>3, <4>1 DEF Since
    <3> QED BY <3>4, <3>5
  <2>3. CASE Simplify
    <3> DEFINE n == calls[1].node
               s == Simplified(n)
               origin == OriginIn(calls, tree, 1)
    <3>1. Ends(T) /\ Returns(T)
      BY <2>3, SimplifyStep
    <3>2. /\ 1 \in 1..Len(calls) /\ n \in T /\ s \in T /\ expr' = expr
          /\ mid_error' = "MID_ALL_GOOD" => mid_error = "MID_ALL_GOOD" /\ ~Refused(n)
      BY <3>1 DEF Ends
    <3>3. /\ always \/ mid_error = "MID_ALL_GOOD"
          /\ <<n, s>> \in R
      BY <3>2
    <3>4. origin \in T /\ <<origin, n>> \in R
      BY <3>2, <3>3, OriginsAreTrees DEF Related
    <3> HIDE DEF n, s, origin
    <3>5. <<origin, s>> \in R
      BY <3>2, <3>3, <3>4 DEF Compositional
    <3>6. ~(Len(calls) = 1 /\ calls' = << >>)
      <4>1. Len(<< >>) = 0
        BY Short
      <4> QED BY <4>1
    <3>7. /\ 2 \in 1..Len(calls) /\ OnSides(calls[2], T) /\ calls[2].todo # {}
          /\ Popped(calls, Resumed(calls[2], s), calls')
      BY <3>1, <3>6 DEF Returns, n, s
    <3>8. CASE k = 1
      <4>1. 1 # Len(calls) /\ 1 + 1 = 2
        BY <3>2, <3>7
      <4>2. origin = Child(calls[2])
        BY <4>1 DEF origin, OriginIn
      <4>3. <<calls[2].node, Resumed(calls[2], s).node>> \in R
        BY <3>2, <3>5, <3>7, <4>2, ResumedIsRelated
      <4>4. <<expr, calls[2].node>> \in Q /\ calls[2].node \in T
        BY <3>3, <3>7 DEF Since, OnSides
      <4>5. Resumed(calls[2], s).node \in T
        BY <3>2, <3>7, OfCalls DEF OnSides
      <4>6. calls'[k] = Resumed(calls[2], s)
        BY <3>7, <3>8 DEF Popped
      <4> QED BY <2>0, <3>2, <4>3, <4>4, <4>5, <4>6 DEF Onward
    <3>9. CASE k # 1
      <4>1. k + 1 \in 1..Len(calls) /\ calls'[k] = calls[k + 1]
        BY <3>7, <3>9 DEF Popped
      <4> QED BY <3>2, <3>3, <4>1 DEF Since
    <3> QED BY <3>8, <3>9
  <2>4. CASE Optimized
    BY <2>4 DEF Optimized, Since
  <2>5. CASE UNCHANGED mvars
    BY <2>5 DEF mvars, Since
  <2> QED BY <2>1, <2>2, <2>3, <2>4, <2>5 DEF MNext
<1>3. MSpec => []WalkTypeOK(T) /\ []Related(R, always)
  BY WalkTypes, ChangesAreRelated
<1> QED BY <1>1, <1>2, <1>3, PTL DEF MSpec
-------------------------------------------------------------------------------
(* A node that eval() does not know how to calculate.                      *)
Unknown(n) == ~IsOp(n, Arithmetic) /\ n.left # NoNode /\ n.right # NoNode

(* For each in b there is one in a, whose operands have become its own.    *)
ComesFrom(a, b) ==
  \A m \in Nodes(b) : Unknown(m) =>
    \E n \in Nodes(a) : Unknown(n) /\ Keeps(n.left, m.left) /\ Keeps(n.right, m.right)

Traced(T) == {p \in T \X T : Keeps(p[1], p[2]) /\ ComesFrom(p[1], p[2])}

(* What is left of that for the parts of a tree.                           *)
Seen(T) ==
  {p \in T \X T :
     /\ \A env \in Envs : Value(p[2], env) = Undefined => Value(p[1], env) = Undefined
     /\ ComesFrom(p[1], p[2])}

LEMMA ComingFromComposes ==
  ASSUME NEW a, NEW b, NEW c, ComesFrom(a, b), ComesFrom(b, c)
  PROVE  ComesFrom(a, c)
<1> SUFFICES ASSUME NEW m \in Nodes(c), Unknown(m)
             PROVE  \E n \in Nodes(a) : /\ Unknown(n) /\ Keeps(n.left, m.left)
                                       /\ Keeps(n.right, m.right)
  BY DEF ComesFrom
<1>1. PICK l \in Nodes(b) : Unknown(l) /\ Keeps(l.left, m.left) /\ Keeps(l.right, m.right)
  BY DEF ComesFrom
<1>2. PICK n \in Nodes(a) : Unknown(n) /\ Keeps(n.left, l.left) /\ Keeps(n.right, l.right)
  BY <1>1 DEF ComesFrom
<1>3. Keeps(n.left, m.left) /\ Keeps(n.right, m.right)
  BY <1>1, <1>2 DEF Keeps
<1> QED BY <1>2, <1>3

LEMMA ComingFromWhole ==
  ASSUME NEW a, NEW b, Nodes(b) \subseteq Nodes(a)
  PROVE  ComesFrom(a, b)
BY DEF ComesFrom, Keeps

LEMMA TracedIsCompositional ==
  ASSUME NEW T, Closed(T), ValuesOfParts(T), NodesOfParts(T)
  PROVE  Compositional(Traced(T), T)
<1>1. \A n \in T : <<n, n>> \in Traced(T)
  BY ComingFromWhole DEF Traced, Keeps
<1>2. ASSUME NEW a \in T, NEW b \in T, NEW c \in T, <<a, b>> \in Traced(T), <<b, c>> \in Traced(T)
      PROVE  <<a, c>> \in Traced(T)
  <2>1. Keeps(a, b) /\ Keeps(b, c) /\ ComesFrom(a, b) /\ ComesFrom(b, c)
    BY <1>2 DEF Traced
  <2>2. Keeps(a, c)
    BY <2>1 DEF Keeps
  <2>3. ComesFrom(a, c)
    BY <2>1, ComingFromComposes
  <2> QED BY <2>2, <2>3 DEF Traced
<1>3. Compositional(Kept(T), T)
  BY KeptIsCompositional
<1>4. ASSUME NEW n \in T, NEW c \in T, NEW m \in T, Keeps(n, m), Unknown(m) => Unknown(n),
             \/ n.left \in T /\ m.left = c /\ m.right = n.right /\ <<n.left, c>> \in Traced(T)
             \/ n.right \in T /\ m.left = n.left /\ m.right = c /\ <<n.right, c>> \in Traced(T)
      PROVE  <<n, m>> \in Traced(T)
  <2>1. /\ Nodes(m) = {m} \cup Nodes(m.left) \cup Nodes(m.right)
        /\ Nodes(n) = {n} \cup Nodes(n.left) \cup Nodes(n.right)
    BY DEF NodesOfParts
  <2>2. Keeps(n.left, m.left) /\ Keeps(n.right, m.right)
    BY <1>4 DEF Traced, Keeps
  <2>3. ComesFrom(n.left, m.left) /\ ComesFrom(n.right, m.right)
    <3>1. ComesFrom(n.left, n.left) /\ ComesFrom(n.right, n.right)
      BY ComingFromWhole
    <3> QED BY <1>4, <3>1 DEF Traced
  <2>4. ASSUME NEW l \in Nodes(m), Unknown(l)
        PROVE  \E o \in Nodes(n) : Unknown(o) /\ Keeps(o.left, l.left) /\ Keeps(o.right, l.right)
    <3>1. CASE l = m
      <4>1. Unknown(n) /\ n \in Nodes(n)
        BY <1>4, <2>1, <2>4, <3>1
      <4> QED BY <2>2, <3>1, <4>1
    <3>2. CASE l \in Nodes(m.left)
      BY <2>1, <2>3, <2>4, <3>2 DEF ComesFrom
    <3>3. CASE l \in Nodes(m.right)
      BY <2>1, <2>3, <2>4, <3>3 DEF ComesFrom
    <3> QED BY <2>1, <3>1, <3>2, <3>3
  <2>5. ComesFrom(n, m)
    BY <2>4 DEF ComesFrom
  <2> QED BY <1>4, <2>5 DEF Traced
<1>5. ASSUME NEW n \in T, NEW c \in T, n.left \in T, <<n.left, c>> \in Traced(T)
      PROVE  <<n, Node(n.type, n.value, c, n.right)>> \in Traced(T)
  <2> DEFINE m == Node(n.type, n.value, c, n.right)
  <2>1. m \in T /\ NoNode \notin T
    BY <1>5 DEF Closed
  <2>2. m.type = n.type /\ m.value = n.value /\ m.left = c /\ m.right = n.right
    BY DEF Node
  <2>3. <<n, m>> \in Kept(T)
    BY <1>3, <1>5 DEF Compositional, Traced, Kept
  <2> HIDE DEF m
  <2>4. Unknown(m) => Unknown(n)
    BY <1>5, <2>1, <2>2 DEF Unknown, IsOp
  <2>5. Keeps(n, m)
    BY <2>3 DEF Kept
  <2>6. <<n, m>> \in Traced(T)
    BY <1>4, <1>5, <2>1, <2>2, <2>4, <2>5
  <2> QED BY <2>6 DEF m
<1>6. ASSUME NEW n \in T, NEW c \in T, n.right \in T, <<n.right, c>> \in Traced(T)
      PROVE  <<n, Node(n.type, n.value, n.left, c)>> \in Traced(T)
  <2> DEFINE m == Node(n.type, n.value, n.left, c)
  <2>1. m \in T /\ NoNode \notin T
    BY <1>6 DEF Closed
  <2>2. m.type = n.type /\ m.value = n.value /\ m.left = n.left /\ m.right = c
    BY DEF Node
  <2>3. <<n, m>> \in Kept(T)
    BY <1>3, <1>6 DEF Compositional, Traced, Kept
  <2> HIDE DEF m
  <2>4. Unknown(m) => Unknown(n)
    BY <1>6, <2>1, <2>2 DEF Unknown, IsOp
  <2>5. Keeps(n, m)
    BY <2>3 DEF Kept
  <2>6. <<n, m>> \in Traced(T)
    BY <1>4, <1>6, <2>1, <2>2, <2>4, <2>5
  <2> QED BY <2>6 DEF m
<1> QED BY <1>1, <1>2, <1>5, <1>6 DEF Compositional

(* A number, or what is a part of a tree, has no comparison of its own.    *)
LEMMA ReplacedIsTraced ==
  ASSUME NEW T, Closed(T), ValuesOfParts(T), NodesOfParts(T), NEW n \in T, NEW s \in T,
         Keeps(n, s), s \in {n, n.left, n.right} \/ \E v : s = Constant(v)
  PROVE  <<n, s>> \in Traced(T)
<1>1. ComesFrom(n, s)
  <2>1. CASE s \in {n, n.left, n.right}
    <3>1. Nodes(s) \subseteq Nodes(n)
      BY <2>1 DEF NodesOfParts
    <3> QED BY <3>1, ComingFromWhole
  <2>2. CASE \E v : s = Constant(v)
    <3>1. s.left = NoNode /\ s.right = NoNode
      BY <2>2, OfConstants
    <3>2. Nodes(s) = {s}
      BY <3>1 DEF NodesOfParts
    <3> QED BY <3>1, <3>2 DEF ComesFrom, Unknown
  <2> QED BY <2>1, <2>2
<1> QED BY <1>1 DEF Traced

LEMMA SimplifiedIsTraced ==
  ASSUME NEW T, Closed(T), ValuesOfParts(T), NodesOfParts(T), NEW n \in T, ~Refused(n)
  PROVE  <<n, Simplified(n)>> \in Traced(T)
<1> DEFINE s == Simplified(n)
<1>1. Keeps(n, s)
  BY SimplifyingKeepsTheValue DEF Kept
<1>2. s \in T /\ (s \in {n, n.left, n.right} \/ \E v : s = Constant(v))
  BY KindsOfSimplified
<1> HIDE DEF s
<1>3. <<n, s>> \in Traced(T)
  BY <1>1, <1>2, ReplacedIsTraced
<1> QED BY <1>3 DEF s

LEMMA SeenIsOnward ==
  ASSUME NEW T, Closed(T), ValuesOfParts(T), NodesOfParts(T)
  PROVE  Onward(Seen(T), Traced(T), T)
<1>1. ASSUME NEW a \in T, NEW b \in T, Keeps(a, b)
      PROVE  \A env \in Envs : Value(b, env) = Undefined => Value(a, env) = Undefined
  BY <1>1 DEF Keeps
<1>2. \A a, b \in T : <<a, b>> \in Traced(T) => <<a, b>> \in Seen(T)
  BY <1>1 DEF Traced, Seen
<1>3. ASSUME NEW a \in T, NEW b \in T, NEW c \in T, <<a, b>> \in Seen(T), <<b, c>> \in Traced(T)
      PROVE  <<a, c>> \in Seen(T)
  <2>1. ComesFrom(a, c)
    BY <1>3, ComingFromComposes DEF Seen, Traced
  <2>2. \A env \in Envs : Value(c, env) = Undefined => Value(a, env) = Undefined
    BY <1>1, <1>3 DEF Seen, Traced
  <2> QED BY <2>1, <2>2 DEF Seen
<1>4. ASSUME NEW a \in T, NEW b \in T, NEW c \in T, <<a, b>> \in Seen(T),
             c = b.left \/ c = b.right
      PROVE  <<a, c>> \in Seen(T)
  <2>1. \A env \in Envs : Value(c, env) = Undefined => Value(b, env) = Undefined
    BY <1>4, ValuesBelow
  <2>2. Nodes(c) \subseteq Nodes(b)
    BY <1>4 DEF NodesOfParts
  <2>3. ComesFrom(a, c)
    BY <1>4, <2>2 DEF Seen, ComesFrom
  <2> QED BY <1>4, <2>1, <2>3 DEF Seen
<1> QED BY <1>2, <1>3, <1>4 DEF Onward

-------------------------------------------------------------------------------
(* A node that is refused becomes NAN, and with it what is calculated of   *)
(* it: the tree has NAN where it had a node without a value, or one that   *)
(* compares what is constant, or one that is constant itself.  What eval() *)
(* says of the tree afterwards it would have said of one with these nodes  *)
(* in their places.                                                        *)
Comparing(a) ==
  \E n \in Nodes(a) : Unknown(n) /\ ConstantIn(n.left) /\ ConstantIn(n.right)

Lost(a) == ConstantIn(a) \/ Comparing(a)

(* b is the tree a with NAN for some of its nodes, as far as K knows it.   *)
Hides(K, a, b) ==
  \/ a = b
  \/ b = Constant(NotANumber) /\ Lost(a)
  \/ /\ a.type = b.type /\ a.value = b.value
     /\ a.left = b.left \/ <<a.left, b.left>> \in K
     /\ a.right = b.right \/ <<a.right, b.right>> \in K

Hidden(T) == UNION {K \in SUBSET (T \X T) : \A p \in K : Hides(K, p[1], p[2])}

LEMMA WhatHides ==
  ASSUME NEW T, NEW a, NEW b, <<a, b>> \in Hidden(T)
  PROVE  a \in T /\ b \in T /\ Hides(Hidden(T), a, b)
<1>1. PICK K \in SUBSET (T \X T) : <<a, b>> \in K /\ \A p \in K : Hides(K, p[1], p[2])
  BY DEF Hidden
<1>2. K \subseteq Hidden(T)
  BY <1>1 DEF Hidden
<1>3. a \in T /\ b \in T /\ Hides(K, a, b)
  BY <1>1
<1> QED BY <1>2, <1>3 DEF Hides

LEMMA HidingGrows ==
  ASSUME NEW T, NEW a \in T, NEW b \in T, Hides(Hidden(T), a, b)
  PROVE  <<a, b>> \in Hidden(T)
<1> DEFINE K == Hidden(T) \cup {<<a, b>>}
<1>1. K \in SUBSET (T \X T)
  BY DEF Hidden
<1>2. ASSUME NEW p \in K
      PROVE  Hides(K, p[1], p[2])
  <2>1. CASE p = <<a, b>>
    BY <2>1 DEF Hides
  <2>2. CASE p \in Hidden(T)
    <3>1. PICK J \in SUBSET (T \X T) : p \in J /\ \A q \in J : Hides(J, q[1], q[2])
      BY <2>2 DEF Hidden
    <3>2. Hides(J, p[1], p[2]) /\ J \subseteq K
      BY <3>1 DEF Hidden
    <3> HIDE DEF K
    <3> QED BY <3>2 DEF Hides
  <2> QED BY <2>1, <2>2
<1>3. K \in {J \in SUBSET (T \X T) : \A p \in J : Hides(J, p[1], p[2])}
  BY <1>1, <1>2
<1>4. <<a, b>> \in K
  OBVIOUS
<1> HIDE DEF K
<1> QED BY <1>3, <1>4 DEF Hidden

(* A number is what it is, or hides what is lost.                          *)
LEMMA HiddenByNumbers ==
  ASSUME NEW T, Closed(T), NEW a, NEW b \in T, IsNum(b), a = b \/ <<a, b>> \in Hidden(T)
  PROVE  /\ a \in T
         /\ a = b \/ (b.value = NotANumber /\ Lost(a))
<1>1. CASE a = b
  BY <1>1
<1>2. CASE a # b
  <2>1. a \in T /\ Hides(Hidden(T), a, b)
    BY <1>2, WhatHides
  <2>2. CASE b = Constant(NotANumber) /\ Lost(a)
    BY <2>1, <2>2, OfConstants
  <2>3. CASE a.type = b.type /\ a.value = b.value
    <3>1. /\ a = Node("NUM", a.value, NoNode, NoNode)
          /\ b = Node("NUM", b.value, NoNode, NoNode)
      BY <2>1, <2>3 DEF Closed, IsNum
    <3> QED BY <1>2, <2>3, <3>1
  <2> QED BY <1>2, <2>1, <2>2, <2>3 DEF Hides
<1> QED BY <1>1, <1>2

(* A node of two children is as it was, but for the children.              *)
LEMMA HiddenInChildren ==
  ASSUME NEW T, Closed(T), NEW a \in T, NEW b \in T, <<a, b>> \in Hidden(T),
         b.left # NoNode, b.right # NoNode
  PROVE  /\ a.type = b.type /\ a.value = b.value
         /\ a.left \in T /\ a.right \in T /\ b.left \in T /\ b.right \in T
         /\ a.left = b.left \/ <<a.left, b.left>> \in Hidden(T)
         /\ a.right = b.right \/ <<a.right, b.right>> \in Hidden(T)
<1>1. b # Constant(NotANumber)
  BY OfConstants
<1>2. /\ a.type = b.type /\ a.value = b.value
      /\ a.left = b.left \/ <<a.left, b.left>> \in Hidden(T)
      /\ a.right = b.right \/ <<a.right, b.right>> \in Hidden(T)
  BY <1>1, WhatHides DEF Hides
<1>3. b.left \in T /\ b.right \in T
  BY DEF Closed
<1>4. a.left \in T /\ a.right \in T
  BY <1>2, <1>3, WhatHides
<1> QED BY <1>2, <1>3, <1>4

LEMMA NumbersAreConstant ==
  ASSUME NEW T, ValuesOfParts(T), NEW a \in T, IsNum(a)
  PROVE  ConstantIn(a)
<1>1. \A env \in Envs : Value(a, env) = Given(a.value)
  BY DEF ValuesOfParts, ValueOfParts
<1> QED BY <1>1 DEF ConstantIn

LEMMA LostNumbers ==
  ASSUME NEW T, Closed(T), ValuesOfParts(T), NEW a, NEW b \in T,
         IsNum(b), a = b \/ <<a, b>> \in Hidden(T)
  PROVE  a \in T /\ Lost(a)
BY HiddenByNumbers, NumbersAreConstant DEF Lost

(* What is lost makes what it is calculated with lost.                     *)
LEMMA ComparingBelow ==
  ASSUME NEW T, NodesOfParts(T), NEW a \in T, Comparing(a.left) \/ Comparing(a.right)
  PROVE  Comparing(a)
<1>1. Nodes(a) = {a} \cup Nodes(a.left) \cup Nodes(a.right)
  BY DEF NodesOfParts
<1> QED BY <1>1 DEF Comparing

LEMMA CalculatedIsLost ==
  ASSUME NEW T, Closed(T), ValuesOfParts(T), NodesOfParts(T), NEW a \in T,
         IsOp(a, Arithmetic), Lost(a.left), Lost(a.right)
  PROVE  Lost(a)
<1>1. CASE Comparing(a.left) \/ Comparing(a.right)
  BY <1>1, ComparingBelow DEF Lost
<1>2. CASE ConstantIn(a.left) /\ ConstantIn(a.right)
  <2>1. ASSUME NEW e1 \in Envs, NEW e2 \in Envs,
               Value(a, e1) # Undefined, Value(a, e2) # Undefined
        PROVE  Value(a, e1) = Value(a, e2)
    <3>1. /\ Value(a.left, e1) # Undefined /\ Value(a.right, e1) # Undefined
          /\ Value(a.left, e2) # Undefined /\ Value(a.right, e2) # Undefined
      BY <2>1, ValuesBelow
    <3>2. Value(a.left, e1) = Value(a.left, e2) /\ Value(a.right, e1) = Value(a.right, e2)
      BY <1>2, <3>1 DEF ConstantIn
    <3>3. ValueOfParts(a, T, e1) /\ ValueOfParts(a, T, e2)
      BY DEF ValuesOfParts
    <3> QED BY <3>2, <3>3 DEF ValueOfParts
  <2> QED BY <2>1 DEF ConstantIn, Lost
<1> QED BY <1>1, <1>2 DEF Lost

LEMMA ComparedIsLost ==
  ASSUME NEW T, Closed(T), NodesOfParts(T), NEW a \in T, Unknown(a), Lost(a.left), Lost(a.right)
  PROVE  Comparing(a)
<1>1. a \in Nodes(a)
  BY DEF NodesOfParts
<1>2. CASE ConstantIn(a.left) /\ ConstantIn(a.right)
  BY <1>1, <1>2 DEF Comparing
<1> QED BY <1>2, ComparingBelow DEF Lost

LEMMA DividedByZero ==
  ASSUME NEW T, Closed(T), ValuesOfParts(T), NEW a \in T,
         IsOp(a, Arithmetic), a.value = "DIV", Is(a.right, Zero), NEW env \in Envs
  PROVE  Value(a, env) = Undefined
<1>1. a.right \in T
  BY DEF Closed
<1>2. ValueOfParts(a, T, env) /\ ValueOfParts(a.right, T, env)
  BY <1>1 DEF ValuesOfParts
<1>3. Value(a.right, env) = Zero
  BY <1>2, SimplificationConstants DEF ValueOfParts, Is, Given
<1>4. Applied(a.value, Value(a.left, env), Value(a.right, env)) = Undefined
  BY <1>3 DEF Applied
<1> QED BY <1>2, <1>4 DEF ValueOfParts, Given

(* What eval() refuses hides a node without a value, or a comparison of    *)
(* what is constant.                                                       *)
LEMMA RefusedIsLost ==
  ASSUME NEW T, Closed(T), ValuesOfParts(T), NodesOfParts(T),
         NEW a \in T, NEW b \in T, <<a, b>> \in Hidden(T), Refused(b)
  PROVE  /\ Lost(a)
         /\ EvalError(b) \in {"MID_DIV_BY_ZERO", "MID_INVALID_OP"}
         /\ EvalError(b) = "MID_DIV_BY_ZERO" => \A env \in Envs : Value(a, env) = Undefined
         /\ EvalError(b) = "MID_INVALID_OP" => Comparing(a)
<1>1. IsNum(b.left) /\ IsNum(b.right) /\ EvalError(b) # "MID_ALL_GOOD"
  BY DEF Refused, Foldable
<1>2. b.left # NoNode /\ b.right # NoNode
  BY <1>1 DEF IsNum, NoNode
<1>3. /\ a.type = b.type /\ a.value = b.value
      /\ a.left \in T /\ a.right \in T /\ b.left \in T /\ b.right \in T
      /\ a.left = b.left \/ <<a.left, b.left>> \in Hidden(T)
      /\ a.right = b.right \/ <<a.right, b.right>> \in Hidden(T)
  BY <1>2, HiddenInChildren
<1>4. Lost(a.left) /\ Lost(a.right)
  BY <1>1, <1>3, LostNumbers
<1>5. CASE IsOp(b, Arithmetic)
  <2>1. EvalError(b) = "MID_DIV_BY_ZERO" /\ b.value = "DIV" /\ Is(b.right, Zero)
    BY <1>1, <1>5 DEF EvalError, IsOp
  <2>2. a.right = b.right
    BY <1>1, <1>3, <2>1, HiddenByNumbers, SimplificationConstants DEF Is
  <2>3. IsOp(a, Arithmetic) /\ a.value = "DIV" /\ Is(a.right, Zero)
    BY <1>3, <1>5, <2>1, <2>2 DEF IsOp
  <2>4. \A env \in Envs : Value(a, env) = Undefined
    BY <2>3, DividedByZero
  <2>5. Lost(a)
    BY <2>4 DEF Lost, ConstantIn
  <2> QED BY <2>1, <2>4, <2>5
<1>6. CASE ~IsOp(b, Arithmetic)
  <2>1. EvalError(b) = "MID_INVALID_OP"
    BY <1>6 DEF EvalError, IsOp, Arithmetic
  <2>2. Unknown(a)
    BY <1>3, <1>6 DEF Unknown, IsOp, Closed
  <2>3. Comparing(a)
    BY <1>4, <2>2, ComparedIsLost
  <2> QED BY <2>1, <2>3 DEF Lost
<1> QED BY <1>5, <1>6

(* The rules for trivial expressions, for the tree that is hidden.         *)
LEMMA RulesKeepTheValue ==
  ASSUME NEW T, Closed(T), ValuesOfParts(T), NEW a \in T
  PROVE  /\ Is(a.left, Zero) /\ LeftZero(a) \in T => Keeps(a, LeftZero(a))
         /\ Is(a.right, Zero) /\ RightZero(a) \in T => Keeps(a, RightZero(a))
         /\ Is(a.left, One) /\ LeftOne(a) \in T => Keeps(a, LeftOne(a))
         /\ Is(a.right, One) /\ RightOne(a) \in T => Keeps(a, RightOne(a))
<1>1. ASSUME NEW s \in T,
             \/ Is(a.left, Zero) /\ s = LeftZero(a)
             \/ Is(a.right, Zero) /\ s = RightZero(a)
             \/ Is(a.left, One) /\ s = LeftOne(a)
             \/ Is(a.right, One) /\ s = RightOne(a),
             NEW env \in Envs, Value(a, env) # Undefined
      PROVE  Value(s, env) = Value(a, env)
  <2> DEFINE V == [m \in T \cup {NoNode} |-> Value(m, env)]
  <2>1. Meaning(V, a)
    BY ValuesAreMeanings
  <2>2. V[a] = Value(a, env) /\ V[s] = Value(s, env)
    OBVIOUS
  <2> HIDE DEF V
  <2>3. V[a] # Undefined
    BY <1>1, <2>2
  <2> QED BY <1>1, <2>1, <2>2, <2>3, ZeroOnTheLeft, ZeroOnTheRight, OneOnTheLeft, OneOnTheRight
<1> QED BY <1>1 DEF Keeps

(* One of them makes of the hidden tree what it makes of the other.        *)
LEMMA RulesAreAlike ==
  ASSUME NEW T, Closed(T), ValuesOfParts(T), NEW a \in T, NEW b \in T, <<a, b>> \in Hidden(T),
         SolveTrivialExpr(b) # b
  PROVE  \E t \in T : /\ Keeps(a, t)
                      /\ t \in {a, a.left, a.right} \/ \E v : t = Constant(v)
                      /\ t = SolveTrivialExpr(b) \/ <<t, SolveTrivialExpr(b)>> \in Hidden(T)
<1> DEFINE s == SolveTrivialExpr(b)
<1>1. b.left # NoNode /\ b.right # NoNode
  BY KindsOfSolution
<1>2. /\ a.type = b.type /\ a.value = b.value
      /\ a.left \in T /\ a.right \in T /\ b.left \in T /\ b.right \in T
      /\ a.left = b.left \/ <<a.left, b.left>> \in Hidden(T)
      /\ a.right = b.right \/ <<a.right, b.right>> \in Hidden(T)
  BY <1>1, HiddenInChildren
<1>3. \A v \in Numbers : /\ Is(b.left, v) => Is(a.left, v)
                         /\ Is(b.right, v) => Is(a.right, v)
  BY <1>2, HiddenByNumbers, SimplificationConstants DEF Is
<1>4. /\ Constant(Zero) \in T /\ Constant(One) \in T /\ Constant(NotANumber) \in T
      /\ Zero \in Numbers /\ One \in Numbers
  BY SimplificationConstants DEF Closed
<1>5. <<a, b>> \in Hidden(T) /\ Keeps(a, a)
  BY DEF Keeps
<1>6. CASE Is(b.left, Zero)
  <2>1. s = LeftZero(b)
    BY <1>1, <1>6 DEF SolveTrivialExpr
  <2>2. \/ LeftZero(a) = Constant(Zero) /\ LeftZero(b) = Constant(Zero)
        \/ LeftZero(a) = a.right /\ LeftZero(b) = b.right
        \/ LeftZero(a) = a /\ LeftZero(b) = b
    BY <1>2 DEF LeftZero, IsOp
  <2>3. Is(a.left, Zero)
    BY <1>3, <1>4, <1>6
  <2>4. Keeps(a, LeftZero(a)) /\ LeftZero(a) \in T
    BY <1>2, <1>4, <2>2, <2>3, RulesKeepTheValue
  <2> QED BY <1>2, <1>5, <2>1, <2>2, <2>4
<1>7. CASE ~Is(b.left, Zero) /\ Is(b.right, Zero)
  <2>1. s = RightZero(b)
    BY <1>1, <1>7 DEF SolveTrivialExpr
  <2>2. \/ \E v \in {Zero, One, NotANumber} :
             RightZero(a) = Constant(v) /\ RightZero(b) = Constant(v)
        \/ RightZero(a) = a.left /\ RightZero(b) = b.left
        \/ RightZero(a) = a /\ RightZero(b) = b
    BY <1>2 DEF RightZero, IsOp
  <2>3. Is(a.right, Zero)
    BY <1>3, <1>4, <1>7
  <2>4. Keeps(a, RightZero(a)) /\ RightZero(a) \in T
    BY <1>2, <1>4, <2>2, <2>3, RulesKeepTheValue
  <2> QED BY <1>2, <1>5, <2>1, <2>2, <2>4
<1>8. CASE ~Is(b.left, Zero) /\ ~Is(b.right, Zero) /\ Is(b.left, One)
  <2>1. s = LeftOne(b)
    BY <1>1, <1>8 DEF SolveTrivialExpr
  <2>2. \/ LeftOne(a) = Constant(One) /\ LeftOne(b) = Constant(One)
        \/ LeftOne(a) = a.right /\ LeftOne(b) = b.right
        \/ LeftOne(a) = a /\ LeftOne(b) = b
    BY <1>2 DEF LeftOne, IsOp
  <2>3. Is(a.left, One)
    BY <1>3, <1>4, <1>8
  <2>4. Keeps(a, LeftOne(a)) /\ LeftOne(a) \in T
    BY <1>2, <1>4, <2>2, <2>3, RulesKeepTheValue
  <2> QED BY <1>2, <1>5, <2>1, <2>2, <2>4
<1>9. CASE ~Is(b.left, Zero) /\ ~Is(b.right, Zero) /\ ~Is(b.left, One) /\ Is(b.right, One)
  <2>1. s = RightOne(b)
    BY <1>1, <1>9 DEF SolveTrivialExpr
  <2>2. \/ RightOne(a) = a.left /\ RightOne(b) = b.left
        \/ RightOne(a) = a /\ RightOne(b) = b
    BY <1>2 DEF RightOne, IsOp
  <2>3. Is(a.right, One)
    BY <1>3, <1>4, <1>9
  <2>4. Keeps(a, RightOne(a)) /\ RightOne(a) \in T
    BY <1>2, <1>4, <2>2, <2>3, RulesKeepTheValue
  <2> QED BY <1>2, <1>5, <2>1, <2>2, <2>4
<1>10. CASE ~Is(b.left, Zero) /\ ~Is(b.right, Zero) /\ ~Is(b.left, One) /\ ~Is(b.right, One)
  <2>1. VarSubVar(b) /\ s = Constant(Zero)
    BY <1>1, <1>10 DEF SolveTrivialExpr
  <2>2. a.left = b.left /\ a.right = b.right
    <3>1. ASSUME NEW c \in T, NEW d \in T, d.type = "VAR", <<c, d>> \in Hidden(T)
          PROVE  c = d
      <4>1. d # Constant(NotANumber) /\ Hides(Hidden(T), c, d)
        BY <3>1, OfConstants, WhatHides
      <4>2. c = d \/ (c.type = "VAR" /\ c.value = d.value)
        BY <3>1, <4>1 DEF Hides
      <4> QED BY <3>1, <4>2 DEF Closed
    <3> QED BY <1>2, <2>1, <3>1 DEF VarSubVar
  <2>3. a = b
    BY <1>2, <2>2 DEF Closed
  <2>4. ~Foldable(a)
    BY <2>1, <2>3 DEF VarSubVar, Foldable, IsNum
  <2>5. Simplified(a) = s /\ ~Refused(a)
    BY <2>3, <2>4 DEF Simplified, FoldConsts, Refused
  <2>6. Keeps(a, Constant(Zero))
    BY <2>1, <2>5, SimplifyingKeepsTheValue DEF Kept
  <2> QED BY <1>4, <2>1, <2>6
<1> QED BY <1>6, <1>7, <1>8, <1>9, <1>10

(* fold_consts() makes of the hidden tree what it makes of the other, if   *)
(* it reports no error; what comes of NAN is lost, but for what pow()      *)
(* makes of it.                                                            *)
LEMMA FoldsAreAlike ==
  ASSUME NEW T, Closed(T), ValuesOfParts(T), NodesOfParts(T),
         NEW a \in T, NEW b \in T, <<a, b>> \in Hidden(T), Foldable(b), ~Refused(b)
  PROVE  \E t \in T : /\ Keeps(a, t)
                      /\ t \in {a, a.left, a.right} \/ \E v : t = Constant(v)
                      /\ t = FoldConsts(b) \/ <<t, FoldConsts(b)>> \in Hidden(T)
<1> DEFINE l == b.left.value
           r == b.right.value
           s == Constant(Computed(b.value, l, r))
<1>1. /\ IsOp(b, Arithmetic) /\ EvalError(b) = "MID_ALL_GOOD" /\ FoldConsts(b) = s
      /\ IsNum(b.left) /\ IsNum(b.right)
  BY DEF Refused, Foldable, FoldConsts, EvalValue, EvalError
<1>2. s \in T
  BY <1>1 DEF Closed
<1>3. b.left # NoNode /\ b.right # NoNode
  BY <1>1 DEF IsNum, NoNode
<1>4. /\ a.type = b.type /\ a.value = b.value
      /\ a.left \in T /\ a.right \in T /\ b.left \in T /\ b.right \in T
      /\ a.left = b.left \/ <<a.left, b.left>> \in Hidden(T)
      /\ a.right = b.right \/ <<a.right, b.right>> \in Hidden(T)
  BY <1>3, HiddenInChildren
<1>5. /\ IsOp(a, Arithmetic) /\ a.value \in Arithmetic
      /\ Lost(a.left) /\ Lost(a.right)
      /\ a.left = b.left \/ l = NotANumber
      /\ a.right = b.right \/ r = NotANumber
  BY <1>1, <1>4, LostNumbers, HiddenByNumbers DEF IsOp
<1>6. Lost(a)
  BY <1>5, CalculatedIsLost
<1>7. NotANumber \notin Numbers /\ Zero \in Numbers /\ One \in Numbers /\ Undefined \notin Numbers
  BY SimplificationConstants
<1> HIDE DEF s, l, r
<1>8. ASSUME Keeps(a, s), \E v : s = Constant(v)
      PROVE  \E t \in T : /\ Keeps(a, t)
                          /\ t \in {a, a.left, a.right} \/ \E v : t = Constant(v)
                          /\ t = s \/ <<t, s>> \in Hidden(T)
  BY <1>2, <1>8
<1>9. \E v : s = Constant(v)
  BY DEF s
<1>10. CASE a.left = b.left /\ a.right = b.right
  <2>1. a = b
    BY <1>4, <1>10 DEF Closed
  <2>2. Simplified(a) = s
    BY <1>1, <1>9, <2>1, OfConstants DEF Simplified
  <2>3. Keeps(a, s)
    BY <2>1, <2>2, SimplifyingKeepsTheValue DEF Kept
  <2> QED BY <1>1, <1>8, <1>9, <2>3
<1>11. CASE l \notin Numbers \cup {NotANumber} \/ r \notin Numbers \cup {NotANumber}
  <2>1. PICK c \in {a.left, a.right} : c \in T /\ IsNum(c) /\ c.value \notin Numbers
    BY <1>1, <1>4, <1>5, <1>7, <1>11 DEF l, r
  <2>2. \A env \in Envs : Value(c, env) = Undefined
    BY <2>1 DEF ValuesOfParts, ValueOfParts, Given
  <2>3. \A env \in Envs : Value(a, env) = Undefined
    BY <2>1, <2>2, ValuesBelow
  <2> QED BY <1>1, <1>8, <1>9, <2>3 DEF Keeps
<1>12. CASE s = Constant(NotANumber)
  <2>1. <<a, s>> \in Hidden(T)
    BY <1>2, <1>6, <1>12, HidingGrows DEF Hides
  <2>2. Keeps(a, a)
    BY DEF Keeps
  <2> QED BY <1>1, <2>1, <2>2
<1>13. CASE /\ l \in Numbers \cup {NotANumber} /\ r \in Numbers \cup {NotANumber}
            /\ ~(a.left = b.left /\ a.right = b.right)
            /\ s # Constant(NotANumber)
  <2>1. \/ l = NotANumber /\ r = Zero
        \/ l = One /\ r = NotANumber
    BY <1>4, <1>5, <1>13, NotANumberIsPassedOn DEF s
  <2>2. b.value = "POW" /\ s = Constant(One)
    BY <1>4, <1>5, <1>7, <1>13, <2>1, NotANumberIsPassedOn DEF s
  <2>3. CASE r = Zero
    <3>1. Is(a.right, Zero) /\ RightZero(a) = s
      BY <1>1, <1>4, <1>5, <1>7, <2>2, <2>3 DEF Is, RightZero, IsOp, r
    <3> QED BY <1>1, <1>2, <1>8, <1>9, <3>1, RulesKeepTheValue
  <2>4. CASE l = One
    <3>1. Is(a.left, One) /\ LeftOne(a) = s
      BY <1>1, <1>4, <1>5, <1>7, <2>2, <2>4 DEF Is, LeftOne, IsOp, l
    <3> QED BY <1>1, <1>2, <1>8, <1>9, <3>1, RulesKeepTheValue
  <2> QED BY <2>1, <2>3, <2>4
<1> QED BY <1>10, <1>11, <1>12, <1>13

(* Whatever hides behind a tree becomes, without an error, what hides      *)
(* behind what the tree becomes.                                           *)
Followed(T) ==
  {p \in T \X T : \A a \in T : <<a, p[1]>> \in Hidden(T) =>
     \E t \in T : <<a, t>> \in Traced(T) /\ <<t, p[2]>> \in Hidden(T)}

(* The given tree has become, but for what hides, what a part is about.    *)
Recalled(T) ==
  {p \in T \X T : \E a \in T : <<p[1], a>> \in Seen(T) /\ <<a, p[2]>> \in Hidden(T)}

LEMMA HidesItself ==
  ASSUME NEW T, NEW a \in T
  PROVE  <<a, a>> \in Hidden(T)
BY HidingGrows DEF Hides

LEMMA SimplifiedIsFollowed ==
  ASSUME NEW T, Closed(T), ValuesOfParts(T), NodesOfParts(T), NEW n \in T
  PROVE  <<n, Simplified(n)>> \in Followed(T)
<1> DEFINE s == Simplified(n)
<1>1. s \in T
  BY KindsOfSimplified
<1>2. ASSUME NEW a \in T, <<a, n>> \in Hidden(T)
      PROVE  \E t \in T : <<a, t>> \in Traced(T) /\ <<t, s>> \in Hidden(T)
  <2>1. Keeps(a, a)
    BY DEF Keeps
  <2>2. CASE Refused(n)
    <3>1. s = Constant(NotANumber)
      BY <2>2, OfConstants DEF Refused, Simplified, FoldConsts, EvalValue
    <3>2. Lost(a)
      BY <1>2, <2>2, RefusedIsLost
    <3>3. <<a, s>> \in Hidden(T)
      BY <1>1, <3>1, <3>2, HidingGrows DEF Hides
    <3> QED BY <2>1, <3>3, ReplacedIsTraced
  <2>3. CASE ~Refused(n)
    <3>1. CASE Foldable(n)
      <4>1. s = FoldConsts(n)
        BY <3>1, OfConstants DEF Simplified, FoldConsts
      <4> HIDE DEF s
      <4> QED BY <1>1, <1>2, <2>3, <3>1, <4>1, FoldsAreAlike, ReplacedIsTraced, HidesItself
    <3>2. CASE ~Foldable(n)
      <4>1. s = SolveTrivialExpr(n)
        BY <3>2 DEF Simplified, FoldConsts
      <4>2. CASE s = n
        BY <1>2, <2>1, <4>2, ReplacedIsTraced
      <4>3. CASE s # n
        <5> HIDE DEF s
        <5> QED BY <1>1, <1>2, <4>1, <4>3, RulesAreAlike, ReplacedIsTraced, HidesItself
      <4> QED BY <4>2, <4>3
    <3> QED BY <3>1, <3>2
  <2> QED BY <2>2, <2>3
<1> QED BY <1>1, <1>2 DEF Followed

LEMMA FollowedIsCompositional ==
  ASSUME NEW T, Closed(T), ValuesOfParts(T), NodesOfParts(T)
  PROVE  Compositional(Followed(T), T)
<1>0. Compositional(Traced(T), T)
  BY TracedIsCompositional
<1>1. \A n \in T : <<n, n>> \in Followed(T)
  BY <1>0 DEF Followed, Compositional
<1>2. ASSUME NEW b \in T, NEW c \in T, NEW d \in T,
             <<b, c>> \in Followed(T), <<c, d>> \in Followed(T)
      PROVE  <<b, d>> \in Followed(T)
  <2>1. ASSUME NEW a \in T, <<a, b>> \in Hidden(T)
        PROVE  \E t \in T : <<a, t>> \in Traced(T) /\ <<t, d>> \in Hidden(T)
    <3>1. PICK u \in T : <<a, u>> \in Traced(T) /\ <<u, c>> \in Hidden(T)
      BY <1>2, <2>1 DEF Followed
    <3>2. PICK t \in T : <<u, t>> \in Traced(T) /\ <<t, d>> \in Hidden(T)
      BY <1>2, <3>1 DEF Followed
    <3>3. <<a, t>> \in Traced(T)
      BY <1>0, <3>1, <3>2 DEF Compositional
    <3> QED BY <3>2, <3>3
  <2> QED BY <2>1 DEF Followed
<1>3. ASSUME NEW n \in T, NEW c \in T, n.left \in T, <<n.left, c>> \in Followed(T)
      PROVE  <<n, Node(n.type, n.value, c, n.right)>> \in Followed(T)
  <2> DEFINE m == Node(n.type, n.value, c, n.right)
  <2>1. m \in T /\ n # Constant(NotANumber)
    BY <1>3, OfConstants DEF Closed
  <2>2. m.type = n.type /\ m.value = n.value /\ m.left = c /\ m.right = n.right
    BY DEF Node
  <2>3. ASSUME NEW a \in T, <<a, n>> \in Hidden(T)
        PROVE  \E t \in T : <<a, t>> \in Traced(T) /\ <<t, m>> \in Hidden(T)
    <3>1. /\ a.type = n.type /\ a.value = n.value
          /\ a.left = n.left \/ <<a.left, n.left>> \in Hidden(T)
          /\ a.right = n.right \/ <<a.right, n.right>> \in Hidden(T)
      BY <2>1, <2>3, WhatHides DEF Hides
    <3>2. <<a.left, n.left>> \in Hidden(T) /\ a.left \in T
      BY <1>3, <3>1, HidesItself, WhatHides
    <3>3. PICK u \in T : <<a.left, u>> \in Traced(T) /\ <<u, c>> \in Hidden(T)
      BY <1>3, <3>2 DEF Followed
    <3> DEFINE t == Node(a.type, a.value, u, a.right)
    <3>4. t \in T /\ <<a, t>> \in Traced(T)
      BY <1>0, <3>2, <3>3 DEF Compositional, Closed
    <3>5. t.type = a.type /\ t.value = a.value /\ t.left = u /\ t.right = a.right
      BY DEF Node
    <3> HIDE DEF t, m
    <3>6. <<t, m>> \in Hidden(T)
      BY <2>1, <2>2, <3>1, <3>3, <3>4, <3>5, HidingGrows DEF Hides
    <3> QED BY <3>4, <3>6
  <2>4. <<n, m>> \in Followed(T)
    BY <2>1, <2>3 DEF Followed
  <2> QED BY <2>4
<1>4. ASSUME NEW n \in T, NEW c \in T, n.right \in T, <<n.right, c>> \in Followed(T)
      PROVE  <<n, Node(n.type, n.value, n.left, c)>> \in Followed(T)
  <2> DEFINE m == Node(n.type, n.value, n.left, c)
  <2>1. m \in T /\ n # Constant(NotANumber)
    BY <1>4, OfConstants DEF Closed
  <2>2. m.type = n.type /\ m.value = n.value /\ m.left = n.left /\ m.right = c
    BY DEF Node
  <2>3. ASSUME NEW a \in T, <<a, n>> \in Hidden(T)
        PROVE  \E t \in T : <<a, t>> \in Traced(T) /\ <<t, m>> \in Hidden(T)
    <3>1. /\ a.type = n.type /\ a.value = n.value
          /\ a.left = n.left \/ <<a.left, n.left>> \in Hidden(T)
          /\ a.right = n.right \/ <<a.right, n.right>> \in Hidden(T)
      BY <2>1, <2>3, WhatHides DEF Hides
    <3>2. <<a.right, n.right>> \in Hidden(T) /\ a.right \in T
      BY <1>4, <3>1, HidesItself, WhatHides
    <3>3. PICK u \in T : <<a.right, u>> \in Traced(T) /\ <<u, c>> \in Hidden(T)
      BY <1>4, <3>2 DEF Followed
    <3> DEFINE t == Node(a.type, a.value, a.left, u)
    <3>4. t \in T /\ <<a, t>> \in Traced(T)
      BY <1>0, <3>2, <3>3 DEF Compositional, Closed
    <3>5. t.type = a.type /\ t.value = a.value /\ t.left = a.left /\ t.right = u
      BY DEF Node
    <3> HIDE DEF t, m
    <3>6. <<t, m>> \in Hidden(T)
      BY <2>1, <2>2, <3>1, <3>3, <3>4, <3>5, HidingGrows DEF Hides
    <3> QED BY <3>4, <3>6
  <2>4. <<n, m>> \in Followed(T)
    BY <2>1, <2>3 DEF Followed
  <2> QED BY <2>4
<1> QED BY <1>1, <1>2, <1>3, <1>4 DEF Compositional

LEMMA RecalledIsOnward ==
  ASSUME NEW T, Closed(T), ValuesOfParts(T), NodesOfParts(T)
  PROVE  Onward(Recalled(T), Followed(T), T)
<1>0. Onward(Seen(T), Traced(T), T)
  BY SeenIsOnward
<1>1. ASSUME NEW a \in T, NEW b \in T, <<a, b>> \in Followed(T)
      PROVE  <<a, b>> \in Recalled(T)
  <2>1. PICK t \in T : <<a, t>> \in Traced(T) /\ <<t, b>> \in Hidden(T)
    BY <1>1, HidesItself DEF Followed
  <2> QED BY <1>0, <2>1 DEF Onward, Recalled
<1>2. ASSUME NEW a \in T, NEW b \in T, NEW c \in T,
             <<a, b>> \in Recalled(T), <<b, c>> \in Followed(T)
      PROVE  <<a, c>> \in Recalled(T)
  <2>1. PICK u \in T : <<a, u>> \in Seen(T) /\ <<u, b>> \in Hidden(T)
    BY <1>2 DEF Recalled
  <2>2. PICK t \in T : <<u, t>> \in Traced(T) /\ <<t, c>> \in Hidden(T)
    BY <1>2, <2>1 DEF Followed
  <2>3. <<a, t>> \in Seen(T)
    BY <1>0, <2>1, <2>2 DEF Onward
  <2> QED BY <2>2, <2>3 DEF Recalled
<1>3. ASSUME NEW a \in T, NEW b \in T, <<a, b>> \in Recalled(T)
      PROVE  /\ b.left \in T => <<a, b.left>> \in Recalled(T)
             /\ b.right \in T => <<a, b.right>> \in Recalled(T)
  <2>1. PICK u \in T : <<a, u>> \in Seen(T) /\ <<u, b>> \in Hidden(T)
    BY <1>3 DEF Recalled
  <2>2. CASE b.left \notin T /\ b.right \notin T
    BY <2>2
  <2>3. CASE b.left \in T \/ b.right \in T
    <3>1. b # Constant(NotANumber)
      BY <2>3, OfConstants DEF Closed
    <3>2. /\ u.left = b.left \/ <<u.left, b.left>> \in Hidden(T)
          /\ u.right = b.right \/ <<u.right, b.right>> \in Hidden(T)
      BY <2>1, <3>1, WhatHides DEF Hides
    <3>3. /\ b.left \in T => u.left \in T /\ <<u.left, b.left>> \in Hidden(T)
          /\ b.right \in T => u.right \in T /\ <<u.right, b.right>> \in Hidden(T)
      BY <3>2, HidesItself, WhatHides
    <3>4. /\ b.left \in T => <<a, u.left>> \in Seen(T)
          /\ b.right \in T => <<a, u.right>> \in Seen(T)
      BY <1>0, <2>1, <3>3 DEF Onward
    <3> QED BY <3>3, <3>4 DEF Recalled
  <2> QED BY <2>2, <2>3
<1> QED BY <1>1, <1>2, <1>3 DEF Onward

(* The compiler stops at an error of eval() only when it must: what        *)
(* optimize() reports, be it the last of many errors, is said of the tree  *)
(* it was given, however much of that it has replaced: that it has no      *)
(* value at all, or that it compares what is constant.                     *)
THEOREM ErrorsHaveACause ==
  ASSUME NEW T, Closed(T), Exprs \subseteq T, ValuesOfParts(T), NodesOfParts(T)
  PROVE  MSpec => []RefusedForCause
<1>1. PICK R : R = Followed(T)
  OBVIOUS
<1>2. PICK always \in BOOLEAN : always
  OBVIOUS
<1>3. PICK Q : Q = Recalled(T)
  OBVIOUS
<1>4. Compositional(R, T)
  BY <1>1, FollowedIsCompositional
<1>5. \A n \in T : always \/ ~Refused(n) => <<n, Simplified(n)>> \in R
  BY <1>1, SimplifiedIsFollowed
<1>6. Onward(Q, R, T)
  BY <1>1, <1>3, RecalledIsOnward
<1>7. MSpec => []Since(Q, always)
  BY <1>4, <1>5, <1>6, ChangesSince
<1>8. MSpec => []WalkTypeOK(T)
  BY WalkTypes
<1>9. MInit => RefusedForCause
  BY DEF MInit, BeginWith, RefusedForCause, Cause
<1>10. WalkTypeOK(T) /\ Since(Q, always) /\ RefusedForCause /\ [MNext]_mvars => RefusedForCause'
  <2> SUFFICES ASSUME WalkTypeOK(T), Since(Q, always), RefusedForCause, [MNext]_mvars
               PROVE  RefusedForCause'
    OBVIOUS
  <2>1. CASE Simplify
    <3> DEFINE m == calls[1].node
    <3>1. Ends(T)
      BY <2>1, SimplifyStep
    <3>2. /\ 1 \in 1..Len(calls) /\ m \in T /\ expr' = expr
          /\ Refused(m) => mid_error' = EvalError(m)
          /\ ~Refused(m) => mid_error' = mid_error
      BY <3>1 DEF Ends
    <3>3. PICK a \in T : <<expr, a>> \in Seen(T) /\ <<a, m>> \in Hidden(T)
      BY <1>2, <1>3, <3>2 DEF Since, Recalled
    <3> HIDE DEF m
    <3>4. CASE Refused(m)
      <4>1. /\ mid_error' = EvalError(m)
            /\ EvalError(m) \in {"MID_DIV_BY_ZERO", "MID_INVALID_OP"}
            /\ EvalError(m) = "MID_DIV_BY_ZERO" => \A env \in Envs : Value(a, env) = Undefined
            /\ EvalError(m) = "MID_INVALID_OP" => Comparing(a)
        BY <3>2, <3>3, <3>4, RefusedIsLost
      <4>2. EvalError(m) = "MID_DIV_BY_ZERO" => \A env \in Envs : Value(expr, env) = Undefined
        BY <3>3, <4>1 DEF Seen
      <4>3. ASSUME EvalError(m) = "MID_INVALID_OP"
            PROVE  \E n \in Nodes(expr) :
                     Unknown(n) /\ ConstantIn(n.left) /\ ConstantIn(n.right)
        <5>1. PICK l \in Nodes(a) : Unknown(l) /\ ConstantIn(l.left) /\ ConstantIn(l.right)
          BY <4>1, <4>3 DEF Comparing
        <5>2. PICK n \in Nodes(expr) :
                Unknown(n) /\ Keeps(n.left, l.left) /\ Keeps(n.right, l.right)
          BY <3>3, <5>1 DEF Seen, ComesFrom
        <5>3. ConstantIn(n.left) /\ ConstantIn(n.right)
          BY <5>1, <5>2 DEF ConstantIn, Keeps
        <5> QED BY <5>2, <5>3
      <4>4. Cause(EvalError(m))
        BY <4>2, <4>3 DEF Cause, Unknown
      <4> QED BY <3>2, <4>1, <4>4 DEF RefusedForCause, Cause
    <3>5. CASE ~Refused(m)
      BY <3>2, <3>5 DEF RefusedForCause, Cause
    <3> QED BY <3>4, <3>5
  <2>2. CASE Pass \/ Descend \/ Optimized \/ UNCHANGED mvars
    BY <2>2 DEF Pass, Descend, Optimized, RefusedForCause, Cause, mvars
  <2> QED BY <2>1, <2>2 DEF MNext
<1> QED BY <1>7, <1>8, <1>9, <1>10, PTL DEF MSpec
-------------------------------------------------------------------------------
LEMMA SizesBelow ==
  ASSUME NEW T, Closed(T), SizesOfParts(T), NEW n \in T
  PROVE  /\ Size(n) \in Nat /\ Size(n.left) \in Nat /\ Size(n.right) \in Nat
         /\ Size(n) = 1 + Size(n.left) + Size(n.right)
         /\ n # n.left /\ n # n.right
<1>1. n.left \in T \cup {NoNode} /\ n.right \in T \cup {NoNode}
  BY DEF Closed
<1>2. /\ Size(n) \in Nat /\ Size(n.left) \in Nat /\ Size(n.right) \in Nat
      /\ Size(n) = 1 + Size(n.left) + Size(n.right)
  BY <1>1 DEF SizesOfParts
<1>3. Size(n) # Size(n.left) /\ Size(n) # Size(n.right)
  BY <1>2
<1> QED BY <1>2, <1>3

(* A tree becomes a smaller one, or stays what it is.                      *)
Shrunk(T) == {p \in T \X T : p[1] = p[2] \/ Size(p[2]) < Size(p[1])}

LEMMA ShrunkIsCompositional ==
  ASSUME NEW T, Closed(T), SizesOfParts(T)
  PROVE  Compositional(Shrunk(T), T)
<1>1. \A n \in T : <<n, n>> \in Shrunk(T)
  BY DEF Shrunk
<1>2. ASSUME NEW a \in T, NEW b \in T, NEW c \in T, <<a, b>> \in Shrunk(T), <<b, c>> \in Shrunk(T)
      PROVE  <<a, c>> \in Shrunk(T)
  <2>1. Size(a) \in Nat /\ Size(b) \in Nat /\ Size(c) \in Nat
    BY SizesBelow
  <2> QED BY <1>2, <2>1 DEF Shrunk
<1>3. ASSUME NEW n \in T, NEW c \in T, n.left \in T, <<n.left, c>> \in Shrunk(T)
      PROVE  <<n, Node(n.type, n.value, c, n.right)>> \in Shrunk(T)
  <2> DEFINE m == Node(n.type, n.value, c, n.right)
  <2>1. m \in T /\ m.left = c /\ m.right = n.right
    BY <1>3 DEF Closed, Node
  <2>2. n = Node(n.type, n.value, n.left, n.right)
    BY DEF Closed
  <2>3. n.left = c => m = n
    BY <2>2
  <2> HIDE DEF m
  <2>4. /\ Size(n) = 1 + Size(n.left) + Size(n.right) /\ Size(m) = 1 + Size(c) + Size(n.right)
        /\ Size(n.left) \in Nat /\ Size(n.right) \in Nat /\ Size(c) \in Nat
    <3>1. Size(m) = 1 + Size(m.left) + Size(m.right) /\ Size(c) \in Nat
      BY <2>1, SizesBelow
    <3>2. /\ Size(n) = 1 + Size(n.left) + Size(n.right)
          /\ Size(n.left) \in Nat /\ Size(n.right) \in Nat
      BY SizesBelow
    <3> QED BY <2>1, <3>1, <3>2
  <2>5. n.left = c \/ Size(c) < Size(n.left)
    BY <1>3 DEF Shrunk
  <2>6. m = n \/ Size(m) < Size(n)
    BY <2>3, <2>4, <2>5
  <2>7. <<n, m>> \in Shrunk(T)
    BY <2>1, <2>6 DEF Shrunk
  <2> QED BY <2>7 DEF m
<1>4. ASSUME NEW n \in T, NEW c \in T, n.right \in T, <<n.right, c>> \in Shrunk(T)
      PROVE  <<n, Node(n.type, n.value, n.left, c)>> \in Shrunk(T)
  <2> DEFINE m == Node(n.type, n.value, n.left, c)
  <2>1. m \in T /\ m.left = n.left /\ m.right = c
    BY <1>4 DEF Closed, Node
  <2>2. n = Node(n.type, n.value, n.left, n.right)
    BY DEF Closed
  <2>3. n.right = c => m = n
    BY <2>2
  <2> HIDE DEF m
  <2>4. /\ Size(n) = 1 + Size(n.left) + Size(n.right) /\ Size(m) = 1 + Size(n.left) + Size(c)
        /\ Size(n.left) \in Nat /\ Size(n.right) \in Nat /\ Size(c) \in Nat
    <3>1. Size(m) = 1 + Size(m.left) + Size(m.right) /\ Size(c) \in Nat
      BY <2>1, SizesBelow
    <3>2. /\ Size(n) = 1 + Size(n.left) + Size(n.right)
          /\ Size(n.left) \in Nat /\ Size(n.right) \in Nat
      BY SizesBelow
    <3> QED BY <2>1, <3>1, <3>2
  <2>5. n.right = c \/ Size(c) < Size(n.right)
    BY <1>4 DEF Shrunk
  <2>6. m = n \/ Size(m) < Size(n)
    BY <2>3, <2>4, <2>5
  <2>7. <<n, m>> \in Shrunk(T)
    BY <2>1, <2>6 DEF Shrunk
  <2> QED BY <2>7 DEF m
<1> QED BY <1>1, <1>2, <1>3, <1>4 DEF Compositional

LEMMA SimplifiedIsShrunk ==
  ASSUME NEW T, Closed(T), SizesOfParts(T), NEW n \in T
  PROVE  <<n, Simplified(n)>> \in Shrunk(T)
<1> DEFINE s == Simplified(n)
<1> SUFFICES <<n, s>> \in Shrunk(T)
  OBVIOUS
<1>1. /\ s \in T
      /\ \/ s = n
         \/ /\ n.left \in T /\ n.right \in T
            /\ s = n.left \/ s = n.right \/ \E v : s = Constant(v)
  BY KindsOfSimplified
<1>2. /\ Size(n) \in Nat /\ Size(n.left) \in Nat /\ Size(n.right) \in Nat
      /\ Size(n) = 1 + Size(n.left) + Size(n.right)
  BY SizesBelow
<1> HIDE DEF s
<1>3. CASE /\ n.left \in T /\ n.right \in T
           /\ s = n.left \/ s = n.right \/ \E v : s = Constant(v)
  <2>1. /\ Size(n.left) = 1 + Size(n.left.left) + Size(n.left.right)
        /\ Size(n.left.left) \in Nat /\ Size(n.left.right) \in Nat
    BY <1>3, SizesBelow
  <2>2. Size(n.left) > 0
    BY <2>1
  <2>3. CASE s = n.left \/ s = n.right
    <3>1. Size(s) = Size(n.left) \/ Size(s) = Size(n.right)
      BY <2>3
    <3>2. Size(s) < Size(n)
      BY <1>2, <3>1
    <3> QED BY <1>1, <3>2 DEF Shrunk
  <2>4. CASE \E v : s = Constant(v)
    <3>1. s.left = NoNode /\ s.right = NoNode
      BY <2>4, OfConstants
    <3>2. Size(s) = 1 + Size(NoNode) + Size(NoNode) /\ Size(NoNode) = 0
      BY <1>1, <3>1 DEF SizesOfParts
    <3>3. Size(s) < Size(n)
      BY <1>2, <2>2, <3>2
    <3> QED BY <1>1, <3>3 DEF Shrunk
  <2> QED BY <1>3, <2>3, <2>4
<1>4. CASE s = n
  BY <1>1, <1>4 DEF Shrunk
<1> QED BY <1>1, <1>3, <1>4

(* A node that is neither folded nor solved has nothing left to remove.    *)
LEMMA LeftAlone ==
  ASSUME NEW T, Closed(T), SizesOfParts(T), NEW n \in T, ~Foldable(n), SolveTrivialExpr(n) = n
  PROVE  Reduced(n)
<1>1. n.left.type = "NUM" => n.right.type # "NUM"
  BY DEF Foldable, IsNum
<1> SUFFICES ASSUME IsOp(n, Arithmetic)
             PROVE  /\ Is(n.left, Zero) => n.value = "SUB"
                    /\ ~Is(n.right, Zero)
                    /\ Is(n.left, One) => n.value \notin {"MUL", "POW"}
                    /\ Is(n.right, One) => n.value \in {"ADD", "SUB"}
                    /\ n.value = "SUB" /\ n.left.type = "VAR" /\ n.right.type = "VAR" =>
                         n.left.value # n.right.value
  BY <1>1 DEF Reduced
<1>2. n.left # NoNode /\ n.right # NoNode
  BY DEF Closed
<1>3. n # n.left /\ n # n.right
  BY SizesBelow
<1>4. \A v : n # Constant(v)
  BY OfConstants DEF IsOp
<1>5. n.value \in {"ADD", "SUB", "MUL", "DIV", "POW"} /\ n.type = "OP"
  BY DEF IsOp, Arithmetic
<1>6. Is(n.left, Zero) => n.value = "SUB"
  <2>1. Is(n.left, Zero) => LeftZero(n) = n
    BY <1>2 DEF SolveTrivialExpr
  <2> QED BY <1>3, <1>4, <1>5, <2>1 DEF LeftZero, IsOp
<1>7. ~Is(n.right, Zero)
  <2>1. Is(n.right, Zero) => RightZero(n) = n
    BY <1>1, <1>2 DEF SolveTrivialExpr, Is, IsNum
  <2> QED BY <1>3, <1>4, <1>5, <2>1 DEF RightZero, IsOp
<1>8. Is(n.left, One) => n.value \notin {"MUL", "POW"}
  <2>1. Is(n.left, One) /\ ~Is(n.left, Zero) => LeftOne(n) = n
    BY <1>2, <1>7 DEF SolveTrivialExpr
  <2> QED BY <1>3, <1>4, <1>5, <1>6, <2>1 DEF LeftOne, IsOp
<1>9. Is(n.right, One) => n.value \in {"ADD", "SUB"}
  <2>1. Is(n.right, One) => RightOne(n) = n
    BY <1>1, <1>2, <1>7 DEF SolveTrivialExpr, Is, IsNum
  <2> QED BY <1>3, <1>5, <2>1 DEF RightOne, IsOp
<1>10. ~VarSubVar(n)
  <2>1. VarSubVar(n) => ~IsNum(n.left) /\ ~IsNum(n.right)
    BY DEF VarSubVar, IsNum
  <2>2. VarSubVar(n) => SolveTrivialExpr(n) = Constant(Zero)
    BY <1>2, <2>1 DEF SolveTrivialExpr, Is
  <2> QED BY <1>4, <2>2
<1>11. n.value = "SUB" => IsOp(n, {"SUB"})
  BY <1>5 DEF IsOp
<1>12. n.value = "SUB" /\ n.left.type = "VAR" /\ n.right.type = "VAR" =>
         n.left.value # n.right.value
  BY <1>10, <1>11 DEF VarSubVar
<1> QED BY <1>6, <1>7, <1>8, <1>9, <1>12

(* Reduced says of a node in its own words what fold_consts() and          *)
(* solve_trivial_expr() test: they leave a node as it is exactly if it is  *)
(* reduced, whatever its operands are.                                     *)
THEOREM ReducedIsLeftAlone ==
  ASSUME NEW T, Closed(T), SizesOfParts(T), NEW n \in T
  PROVE  Reduced(n) <=> FoldConsts(n) = n /\ SolveTrivialExpr(n) = n
<1>1. ASSUME FoldConsts(n) = n, SolveTrivialExpr(n) = n
      PROVE  Reduced(n)
  <2>1. ASSUME Foldable(n) PROVE FALSE
    <3>1. n = Constant(EvalValue(n))
      BY <1>1, <2>1 DEF FoldConsts
    <3>2. n.left = NoNode
      BY <3>1, OfConstants
    <3> QED BY <2>1, <3>2 DEF Foldable, IsNum, NoNode
  <2> QED BY <1>1, <2>1, LeftAlone
<1>2. ASSUME Reduced(n)
      PROVE  FoldConsts(n) = n /\ SolveTrivialExpr(n) = n
  <2>1. ~Foldable(n)
    BY <1>2 DEF Reduced, Foldable, IsNum
  <2>2. Is(n.left, Zero) => LeftZero(n) = n
    BY <1>2 DEF Reduced, LeftZero, IsOp, Arithmetic
  <2>3. Is(n.right, Zero) => RightZero(n) = n
    BY <1>2 DEF Reduced, RightZero, IsOp, Arithmetic
  <2>4. Is(n.left, One) => LeftOne(n) = n
    BY <1>2 DEF Reduced, LeftOne, IsOp, Arithmetic
  <2>5. Is(n.right, One) => RightOne(n) = n
    BY <1>2 DEF Reduced, RightOne, IsOp, Arithmetic
  <2>6. ~VarSubVar(n)
    BY <1>2 DEF Reduced, VarSubVar, IsOp, Arithmetic
  <2>7. SolveTrivialExpr(n) = n
    BY <2>2, <2>3, <2>4, <2>5, <2>6 DEF SolveTrivialExpr
  <2> QED BY <2>1, <2>7 DEF FoldConsts
<1> QED BY <1>1, <1>2
-------------------------------------------------------------------------------
(* As long as a pass has noted no change, it has left what it has been to  *)
(* as it was, with nothing to remove.                                      *)
AllReduced(n) == \A m \in Nodes(n) : Reduced(m)

Settled(call) ==
  /\ "left" \notin call.todo => AllReduced(call.node.left)
  /\ "right" \notin call.todo => AllReduced(call.node.right)

Unchanged ==
  /\ mstage = "optimized" => ~change_flag
  /\ ~change_flag =>
       /\ mstage # "simplify" => AllReduced(tree)
       /\ \A k \in 1..Len(calls) :
            calls[k].node = OriginIn(calls, tree, k) /\ Settled(calls[k])

LEMMA ActivationIsSettled ==
  ASSUME NEW T, Closed(T), NodesOfParts(T), NEW n \in T
  PROVE  Settled(Activation(n))
<1>1. /\ "left" \notin Sides(n) => n.left = NoNode
      /\ "right" \notin Sides(n) => n.right = NoNode
  BY DEF Sides
<1>2. AllReduced(NoNode)
  BY DEF AllReduced, NodesOfParts
<1> QED BY <1>1, <1>2, OfActivation DEF Settled

LEMMA ResumedIsSettled ==
  ASSUME NEW T, Closed(T), NEW call, OnSides(call, T), call.todo # {},
         Settled(call), AllReduced(Child(call))
  PROVE  Resumed(call, Child(call)).node = call.node /\ Settled(Resumed(call, Child(call)))
<1> DEFINE child == Child(call)
           n == call.node
           new == Resumed(call, child)
<1>1. n \in T /\ call.todo \in SUBSET {"left", "right"}
  BY DEF OnSides
<1>2. n = Node(n.type, n.value, n.left, n.right)
  BY <1>1 DEF Closed
<1>3. CASE "left" \in call.todo
  <2>1. child = n.left
    BY <1>3 DEF Child
  <2>2. new = [node |-> n, todo |-> call.todo \ {"left"}]
    BY <1>2, <1>3, <2>1 DEF Resumed
  <2>3. new.node = n /\ new.todo = call.todo \ {"left"}
    BY <2>2
  <2>4. AllReduced(n.left)
    BY <2>1
  <2>5. "right" \notin call.todo => AllReduced(n.right)
    BY DEF Settled
  <2> HIDE DEF new, n, child
  <2>6. Settled(new)
    BY <2>3, <2>4, <2>5 DEF Settled
  <2> QED BY <2>3, <2>6 DEF new, n, child
<1>4. CASE "left" \notin call.todo
  <2>1. child = n.right
    BY <1>4 DEF Child
  <2>2. new = [node |-> n, todo |-> {}]
    BY <1>2, <1>4, <2>1 DEF Resumed
  <2>3. new.node = n
    BY <2>2
  <2>4. AllReduced(n.right)
    BY <2>1
  <2>5. AllReduced(n.left)
    BY <1>4 DEF Settled
  <2> HIDE DEF new, n, child
  <2>6. Settled(new)
    BY <2>3, <2>4, <2>5 DEF Settled
  <2> QED BY <2>3, <2>6 DEF new, n, child
<1> QED BY <1>3, <1>4

LEMMA UnchangedUntilNoted ==
  ASSUME NEW T, Closed(T), Exprs \subseteq T, NodesOfParts(T), SizesOfParts(T)
  PROVE  MSpec => []Unchanged
<1>1. MInit => Unchanged
  BY DEF MInit, BeginWith, Unchanged
<1>2. WalkTypeOK(T) /\ Unchanged /\ [MNext]_mvars => Unchanged'
  <2> SUFFICES ASSUME WalkTypeOK(T), Unchanged, [MNext]_mvars
               PROVE  /\ mstage' = "optimized" => ~change_flag'
                      /\ ~change_flag' =>
                           /\ mstage' # "simplify" => AllReduced(tree')
                           /\ \A k \in 1..Len(calls') :
                                /\ calls'[k].node = OriginIn(calls', tree', k)
                                /\ Settled(calls'[k])
    BY DEF Unchanged, OriginIn, AllReduced, Settled, Reduced
  <2>0. tree \in T /\ expr \in T /\ IsSeq(calls) /\ Len(calls) \in Nat
    BY DEF WalkTypeOK, IsSeq
  <2>1. CASE Pass
    <3>1. Len(calls') = 1 /\ calls'[1] = Activation(tree)
      BY <2>1, PassStep
    <3>2. Activation(tree).node = tree /\ Settled(Activation(tree))
      BY <2>0, OfActivation, ActivationIsSettled
    <3>3. tree' = tree /\ mstage' = "simplify"
      BY <2>1 DEF Pass
    <3>4. ASSUME NEW k \in 1..Len(calls')
          PROVE  calls'[k].node = OriginIn(calls', tree', k) /\ Settled(calls'[k])
      <4>1. k = 1 /\ k = Len(calls')
        BY <3>1
      <4> QED BY <3>1, <3>2, <3>3, <4>1 DEF OriginIn
    <3> QED BY <3>3, <3>4
  <2>2. CASE Descend
    <3> DEFINE child == Child(calls[1])
               begun == Activation(child)
    <3>1. 1 \in 1..Len(calls) /\ child \in T /\ Pushed(calls, begun, calls')
      BY <2>2, DescendStep
    <3>2. begun.node = child /\ Settled(begun)
      BY <3>1, OfActivation, ActivationIsSettled
    <3>3. tree' = tree /\ mstage' = "simplify" /\ change_flag' = change_flag
      BY <2>2 DEF Descend
    <3>4. OneDeeper(calls, calls', tree)
      BY <2>0, <3>1, PushedOrigins
    <3> HIDE DEF begun
    <3>5. ASSUME NEW k \in 1..Len(calls'), ~change_flag
          PROVE  calls'[k].node = OriginIn(calls', tree, k) /\ Settled(calls'[k])
      <4>1. CASE k = 1
        BY <3>1, <3>2, <3>4, <4>1 DEF Pushed, OneDeeper
      <4>2. CASE k # 1
        <5>1. /\ k - 1 \in 1..Len(calls) /\ calls'[k] = calls[k - 1]
              /\ OriginIn(calls', tree, k) = OriginIn(calls, tree, k - 1)
          BY <3>1, <3>4, <4>2 DEF Pushed, OneDeeper
        <5> QED BY <3>5, <5>1 DEF Unchanged
      <4> QED BY <4>1, <4>2
    <3> QED BY <3>3, <3>5
  <2>3. CASE Simplify
    <3> DEFINE n == calls[1].node
               s == Simplified(n)
    <3>1. Ends(T) /\ Returns(T)
      BY <2>3, SimplifyStep
    <3>2. /\ 1 \in 1..Len(calls) /\ n \in T /\ calls[1].todo = {}
          /\ change_flag => change_flag'
          /\ ~change_flag' => ~Foldable(n) /\ SolveTrivialExpr(n) = n /\ s = n
      BY <3>1 DEF Ends
    <3>3. mstage' = "optimize" \/ mstage' = "simplify"
      BY <3>1 DEF Returns
    <3>4. ASSUME ~change_flag'
          PROVE  /\ mstage' # "simplify" => AllReduced(tree')
                 /\ \A k \in 1..Len(calls') :
                      calls'[k].node = OriginIn(calls', tree', k) /\ Settled(calls'[k])
      <4>1. ~change_flag /\ s = n
        BY <3>2, <3>4
      <4>2. Reduced(n)
        BY <3>2, <3>4, LeftAlone
      <4>3. AllReduced(n)
        <5>1. AllReduced(n.left) /\ AllReduced(n.right)
          BY <3>2, <4>1 DEF Unchanged, Settled
        <5>2. Nodes(n) = {n} \cup Nodes(n.left) \cup Nodes(n.right)
          BY <3>2 DEF NodesOfParts
        <5> HIDE DEF n
        <5> QED BY <4>2, <5>1, <5>2 DEF AllReduced
      <4>4. n = OriginIn(calls, tree, 1)
        BY <3>2, <4>1 DEF Unchanged
      <4>5. CASE Len(calls) = 1 /\ calls' = << >> /\ tree' = s /\ mstage' = "optimize"
        <5>1. Len(<< >>) = 0
          BY Short
        <5> QED BY <4>1, <4>3, <4>5, <5>1
      <4>6. CASE /\ 2 \in 1..Len(calls) /\ OnSides(calls[2], T) /\ calls[2].todo # {}
                 /\ Popped(calls, Resumed(calls[2], s), calls')
                 /\ tree' = tree /\ mstage' = "simplify"
        <5>1. 1 # Len(calls) /\ 1 + 1 = 2
          BY <2>0, <4>6
        <5>2. s = Child(calls[2])
          BY <4>1, <4>4, <5>1 DEF OriginIn
        <5>3. calls[2].node = OriginIn(calls, tree, 2) /\ Settled(calls[2])
          BY <4>1, <4>6 DEF Unchanged
        <5>4. AllReduced(Child(calls[2]))
          BY <4>1, <4>3, <5>2
        <5>5. Resumed(calls[2], s).node = calls[2].node /\ Settled(Resumed(calls[2], s))
          BY <4>6, <5>2, <5>3, <5>4, ResumedIsSettled
        <5> HIDE DEF s
        <5>6. \A k \in 1..Len(calls') :
                k + 1 \in 1..Len(calls) /\ OriginIn(calls', tree, k) = OriginIn(calls, tree, k + 1)
          <6>1. OneHigher(calls, calls', tree)
            BY <2>0, <4>6, PoppedOrigins
          <6> QED BY <4>6, <6>1 DEF OneHigher
        <5>7. ASSUME NEW k \in 1..Len(calls')
              PROVE  calls'[k].node = OriginIn(calls', tree, k) /\ Settled(calls'[k])
          <6>1. CASE k = 1
            BY <4>6, <5>1, <5>3, <5>5, <5>6, <6>1 DEF Popped
          <6>2. CASE k # 1
            <7>1. k + 1 \in 1..Len(calls) /\ calls'[k] = calls[k + 1]
              BY <4>6, <6>2 DEF Popped
            <7> QED BY <4>1, <5>6, <7>1 DEF Unchanged
          <6> QED BY <6>1, <6>2
        <5> QED BY <4>6, <5>7
      <4> QED BY <3>1, <4>5, <4>6 DEF Returns
    <3> QED BY <3>3, <3>4
  <2>4. CASE Optimized
    BY <2>4 DEF Optimized, Unchanged
  <2>5. CASE UNCHANGED mvars
    BY <2>5 DEF mvars, Unchanged
  <2> QED BY <2>1, <2>2, <2>3, <2>4, <2>5 DEF MNext
<1>3. MSpec => []WalkTypeOK(T)
  BY WalkTypes
<1> QED BY <1>1, <1>2, <1>3, PTL DEF MSpec

(* optimize() ends only when every node of the tree that is left is        *)
(* reduced, that is when none can be folded or solved any more, whatever   *)
(* one change opened the way for.                                          *)
THEOREM OptimizeLeavesNothing ==
  ASSUME NEW T, Closed(T), Exprs \subseteq T, NodesOfParts(T), SizesOfParts(T)
  PROVE  MSpec => []FullySimplified
<1>1. Unchanged => FullySimplified
  BY DEF Unchanged, FullySimplified, AllReduced
<1> QED BY <1>1, UnchangedUntilNoted, PTL

(* A pass changes the tree only for a smaller one, and then asks for       *)
(* another pass: there is an end to the passes over every tree.            *)
THEOREM PassesShrinkTheTree ==
  ASSUME NEW T, Closed(T), Exprs \subseteq T, NodesOfParts(T), SizesOfParts(T)
  PROVE  MSpec => PassShrinks
<1>1. PICK R : R = Shrunk(T)
  OBVIOUS
<1>2. PICK always \in BOOLEAN : always
  OBVIOUS
<1>3. Compositional(R, T)
  BY <1>1, ShrunkIsCompositional
<1>4. \A n \in T : always \/ ~Refused(n) => <<n, Simplified(n)>> \in R
  BY <1>1, SimplifiedIsShrunk
<1>5. MSpec => []Related(R, always)
  BY <1>3, <1>4, ChangesAreRelated
<1>6. MSpec => []WalkTypeOK(T) /\ []Unchanged
  BY WalkTypes, UnchangedUntilNoted
<1>7. WalkTypeOK(T) /\ Related(R, always) /\ Unchanged /\ [MNext]_mvars
        => [tree' # tree => Size(tree') < Size(tree) /\ change_flag']_mvars
  <2> SUFFICES ASSUME WalkTypeOK(T), Related(R, always), Unchanged, MNext, tree' # tree
               PROVE  Size(tree') < Size(tree) /\ change_flag'
    OBVIOUS
  <2> DEFINE n == calls[1].node
             s == Simplified(n)
  <2>1. Simplify
    BY DEF MNext, Pass, Descend, Optimized
  <2>2. Ends(T) /\ Returns(T)
    BY <2>1, SimplifyStep
  <2>3. /\ 1 \in 1..Len(calls) /\ n \in T /\ s \in T
        /\ change_flag' \in BOOLEAN
        /\ change_flag => change_flag'
        /\ ~change_flag' => s = n
    BY <2>2 DEF Ends
  <2>4. Len(calls) = 1 /\ tree' = s
    BY <2>2 DEF Returns
  <2>5. OriginIn(calls, tree, 1) = tree
    BY <2>4 DEF OriginIn
  <2>6. <<tree, n>> \in R /\ <<n, s>> \in R
    BY <1>2, <1>4, <2>3, <2>5 DEF Related
  <2>7. <<tree, s>> \in R
    BY <1>3, <2>3, <2>6 DEF Compositional, WalkTypeOK
  <2>8. Size(tree') < Size(tree)
    BY <1>1, <2>4, <2>7 DEF Shrunk
  <2>9. change_flag'
    <3> SUFFICES ASSUME ~change_flag' PROVE FALSE
      OBVIOUS
    <3>1. s = n /\ ~change_flag
      BY <2>3
    <3>2. n = tree
      BY <2>3, <2>5, <3>1 DEF Unchanged
    <3> QED BY <2>4, <3>1, <3>2
  <2> QED BY <2>8, <2>9
<1> QED BY <1>5, <1>6, <1>7, PTL DEF MSpec, PassShrinks
-------------------------------------------------------------------------------
(* Subsequences.                                                           *)
LEMMA WithinItself ==
  ASSUME NEW a, IsSeq(a)
  PROVE  Within(a, a) /\ Within(<< >>, a)
<1>1. Len(a) \in Nat /\ Len(<< >>) = 0
  BY Short DEF IsSeq
<1>2. Within(a, a)
  <2> DEFINE place == [i \in 1..Len(a) |-> i]
  <2>1. place \in [1..Len(a) -> 1..Len(a)] /\ \A i \in 1..Len(a) : place[i] = i
    OBVIOUS
  <2> HIDE DEF place
  <2>2. \A i, j \in 1..Len(a) : i < j => place[i] < place[j]
    BY <2>1
  <2> QED BY <2>1, <2>2 DEF Within
<1>3. Within(<< >>, a)
  <2> DEFINE none == << >>
             place == [i \in 1..Len(none) |-> i]
  <2>1. Len(none) = 0
    BY <1>1
  <2> HIDE DEF none
  <2>2. 1..Len(none) = {}
    BY <2>1
  <2>3. place \in [1..Len(none) -> 1..Len(a)]
    BY <2>2
  <2>4. Within(none, a)
    BY <2>2, <2>3 DEF Within
  <2> QED BY <2>4 DEF none
<1> QED BY <1>2, <1>3

LEMMA WithinWithin ==
  ASSUME NEW a, NEW b, NEW c, Within(c, b), Within(b, a)
  PROVE  Within(c, a)
<1>1. PICK f \in [1..Len(c) -> 1..Len(b)] :
        /\ \A i \in 1..Len(c) : c[i] = b[f[i]]
        /\ \A i, j \in 1..Len(c) : i < j => f[i] < f[j]
  BY DEF Within
<1>2. PICK g \in [1..Len(b) -> 1..Len(a)] :
        /\ \A i \in 1..Len(b) : b[i] = a[g[i]]
        /\ \A i, j \in 1..Len(b) : i < j => g[i] < g[j]
  BY DEF Within
<1> DEFINE place == [i \in 1..Len(c) |-> g[f[i]]]
<1>3. place \in [1..Len(c) -> 1..Len(a)] /\ \A i \in 1..Len(c) : place[i] = g[f[i]]
  OBVIOUS
<1> HIDE DEF place
<1>4. \A i \in 1..Len(c) : c[i] = a[place[i]]
  BY <1>1, <1>2, <1>3
<1>5. ASSUME NEW i \in 1..Len(c), NEW j \in 1..Len(c), i < j
      PROVE  place[i] < place[j]
  <2>1. f[i] \in 1..Len(b) /\ f[j] \in 1..Len(b) /\ f[i] < f[j]
    BY <1>1, <1>5
  <2> QED BY <1>2, <1>3, <2>1
<1> QED BY <1>3, <1>4, <1>5 DEF Within

LEMMA WithinBoth ==
  ASSUME NEW a, NEW b, NEW c, NEW d, NEW ab, NEW cd, Follow(a, b, ab), Follow(c, d, cd),
         Within(c, a), Within(d, b)
  PROVE  Within(cd, ab)
<1>1. PICK f \in [1..Len(c) -> 1..Len(a)] :
        /\ \A i \in 1..Len(c) : c[i] = a[f[i]]
        /\ \A i, j \in 1..Len(c) : i < j => f[i] < f[j]
  BY DEF Within
<1>2. PICK g \in [1..Len(d) -> 1..Len(b)] :
        /\ \A i \in 1..Len(d) : d[i] = b[g[i]]
        /\ \A i, j \in 1..Len(d) : i < j => g[i] < g[j]
  BY DEF Within
<1>3. /\ Len(a) \in Nat /\ Len(b) \in Nat /\ Len(ab) = Len(a) + Len(b)
      /\ Len(c) \in Nat /\ Len(d) \in Nat /\ Len(cd) = Len(c) + Len(d)
  BY DEF Follow
<1> DEFINE place == [i \in 1..Len(cd) |-> IF i <= Len(c) THEN f[i] ELSE Len(a) + g[i - Len(c)]]
<1>4. ASSUME NEW i \in 1..Len(cd), i <= Len(c)
      PROVE  place[i] \in 1..Len(a) /\ place[i] \in 1..Len(ab) /\ place[i] = f[i] /\ cd[i] = ab[place[i]]
  <2>1. i \in 1..Len(c) /\ place[i] = f[i]
    BY <1>3, <1>4
  <2>2. f[i] \in 1..Len(a) /\ f[i] \in 1..Len(ab)
    BY <1>1, <1>3, <2>1
  <2>3. cd[i] = c[i] /\ ab[f[i]] = a[f[i]] /\ c[i] = a[f[i]]
    BY <1>1, <2>1, <2>2 DEF Follow
  <2> QED BY <2>1, <2>2, <2>3
<1>5. ASSUME NEW i \in 1..Len(cd), ~(i <= Len(c))
      PROVE  /\ i - Len(c) \in 1..Len(d) /\ g[i - Len(c)] \in 1..Len(b)
             /\ place[i] \in 1..Len(ab) /\ place[i] = Len(a) + g[i - Len(c)] /\ cd[i] = ab[place[i]]
  <2> DEFINE j == i - Len(c)
  <2>1. j \in 1..Len(d) /\ i = Len(c) + j /\ place[i] = Len(a) + g[j]
    BY <1>3, <1>5
  <2> HIDE DEF j, place
  <2>2. g[j] \in 1..Len(b) /\ Len(a) + g[j] \in 1..Len(ab)
    BY <1>2, <1>3, <2>1
  <2>3. cd[Len(c) + j] = d[j] /\ ab[Len(a) + g[j]] = b[g[j]] /\ d[j] = b[g[j]]
    BY <1>2, <2>1, <2>2 DEF Follow
  <2> QED BY <2>1, <2>2, <2>3 DEF j
<1>6. place = [i \in 1..Len(cd) |-> place[i]]
  OBVIOUS
<1> HIDE DEF place
<1>7. place \in [1..Len(cd) -> 1..Len(ab)] /\ \A i \in 1..Len(cd) : cd[i] = ab[place[i]]
  BY <1>4, <1>5, <1>6
<1>8. ASSUME NEW i \in 1..Len(cd), NEW j \in 1..Len(cd), i < j
      PROVE  place[i] < place[j]
  <2>1. CASE j <= Len(c)
    <3>1. i \in 1..Len(c) /\ j \in 1..Len(c) /\ i <= Len(c)
      BY <1>3, <1>8, <2>1
    <3> QED BY <1>1, <1>4, <1>8, <2>1, <3>1
  <2>2. CASE i <= Len(c) /\ ~(j <= Len(c))
    <3>1. place[i] \in 1..Len(a) /\ place[j] = Len(a) + g[j - Len(c)] /\ g[j - Len(c)] \in 1..Len(b)
      BY <1>4, <1>5, <2>2
    <3> QED BY <1>3, <3>1
  <2>3. CASE ~(i <= Len(c))
    <3>1. ~(j <= Len(c)) /\ i - Len(c) < j - Len(c)
      BY <1>3, <1>8, <2>3
    <3>2. /\ i - Len(c) \in 1..Len(d) /\ place[i] = Len(a) + g[i - Len(c)]
          /\ g[i - Len(c)] \in 1..Len(b)
      BY <1>5, <2>3
    <3>3. /\ j - Len(c) \in 1..Len(d) /\ place[j] = Len(a) + g[j - Len(c)]
          /\ g[j - Len(c)] \in 1..Len(b)
      BY <1>5, <3>1
    <3>4. g[i - Len(c)] < g[j - Len(c)]
      BY <1>2, <3>1, <3>2, <3>3
    <3> QED BY <1>3, <3>2, <3>3, <3>4
  <2> QED BY <2>1, <2>2, <2>3
<1> QED BY <1>7, <1>8 DEF Within

LEMMA WithinJoined ==
  ASSUME NEW a, NEW b, NEW c, NEW d, IsSeq(a), IsSeq(b), IsSeq(c), IsSeq(d),
         Within(c, a), Within(d, b)
  PROVE  Within(c \o d, a \o b)
<1>1. Follow(a, b, a \o b) /\ Follow(c, d, c \o d)
  BY Joined
<1> QED BY <1>1, WithinBoth

LEMMA WithinOneOf ==
  ASSUME NEW a, NEW b, IsSeq(a), IsSeq(b)
  PROVE  Within(a, a \o b) /\ Within(b, a \o b)
<1>1. IsSeq(<< >>) /\ Within(<< >>, a) /\ Within(<< >>, b) /\ Within(a, a) /\ Within(b, b)
  BY Short, WithinItself
<1>2. Within(a \o << >>, a \o b) /\ Within(<< >> \o b, a \o b)
  BY <1>1, WithinJoined
<1>3. a \o << >> = a /\ << >> \o b = b
  BY ConcatEmptySeq DEF IsSeq
<1> QED BY <1>2, <1>3
-------------------------------------------------------------------------------
LEMMA CallsBelow ==
  ASSUME NEW T, Closed(T), CallsOfParts(T), NEW n \in T
  PROVE  /\ IsSeq(CallsOf(n)) /\ IsSeq(CallsOf(n.left)) /\ IsSeq(CallsOf(n.right))
         /\ IsSeq(CallsOf(n.left) \o CallsOf(n.right))
<1>1. ASSUME NEW m \in T
      PROVE  IsSeq(CallsOf(m))
  BY DEF CallsOfParts, IsSeq
<1>2. IsSeq(CallsOf(NoNode))
  BY Short DEF CallsOfParts
<1>3. n.left \in T \cup {NoNode} /\ n.right \in T \cup {NoNode}
  BY DEF Closed
<1>4. IsSeq(CallsOf(n.left)) /\ IsSeq(CallsOf(n.right)) /\ IsSeq(CallsOf(n))
  BY <1>1, <1>2, <1>3
<1> QED BY <1>4, Joined

LEMMA CallsWithin ==
  ASSUME NEW T, Closed(T), CallsOfParts(T), NEW n \in T
  PROVE  Within(CallsOf(n.left), CallsOf(n)) /\ Within(CallsOf(n.right), CallsOf(n))
<1> DEFINE own == IF n.type = "FUNC" THEN << n.value >> ELSE << >>
           both == CallsOf(n.left) \o CallsOf(n.right)
<1>1. IsSeq(both) /\ IsSeq(own)
  BY CallsBelow, Short
<1>2. CallsOf(n) = both \o own
  BY DEF CallsOfParts
<1>3. Within(CallsOf(n.left), both) /\ Within(CallsOf(n.right), both)
  BY CallsBelow, WithinOneOf
<1> HIDE DEF both, own
<1>4. Within(both, both \o own)
  BY <1>1, WithinOneOf
<1> QED BY <1>2, <1>3, <1>4, WithinWithin

Ordered(T) == {p \in T \X T : Within(CallsOf(p[2]), CallsOf(p[1]))}

LEMMA OrderedByChildren ==
  ASSUME NEW T, Closed(T), CallsOfParts(T), NEW n \in T, NEW m \in T,
         m.type = n.type, m.value = n.value,
         Within(CallsOf(m.left), CallsOf(n.left)), Within(CallsOf(m.right), CallsOf(n.right))
  PROVE  <<n, m>> \in Ordered(T)
<1> DEFINE own == IF n.type = "FUNC" THEN << n.value >> ELSE << >>
           before == CallsOf(n.left) \o CallsOf(n.right)
           after == CallsOf(m.left) \o CallsOf(m.right)
<1>1. IsSeq(before) /\ IsSeq(after) /\ IsSeq(own)
  BY CallsBelow, Short
<1>2. CallsOf(n) = before \o own /\ CallsOf(m) = after \o own
  BY DEF CallsOfParts
<1>3. Within(after, before)
  BY CallsBelow, WithinJoined
<1> HIDE DEF own, before, after
<1>4. Within(own, own)
  BY <1>1, WithinItself
<1>5. Within(after \o own, before \o own)
  BY <1>1, <1>3, <1>4, WithinJoined
<1> QED BY <1>2, <1>5 DEF Ordered

LEMMA OrderedIsCompositional ==
  ASSUME NEW T, Closed(T), CallsOfParts(T)
  PROVE  Compositional(Ordered(T), T)
<1>1. \A n \in T : <<n, n>> \in Ordered(T)
  BY CallsBelow, WithinItself DEF Ordered
<1>2. \A a, b, c \in T :
        <<a, b>> \in Ordered(T) /\ <<b, c>> \in Ordered(T) => <<a, c>> \in Ordered(T)
  BY WithinWithin DEF Ordered
<1>3. \A n \in T : Within(CallsOf(n.left), CallsOf(n.left)) /\ Within(CallsOf(n.right), CallsOf(n.right))
  BY CallsBelow, WithinItself
<1>4. ASSUME NEW n \in T, NEW c \in T, n.left \in T, <<n.left, c>> \in Ordered(T)
      PROVE  <<n, Node(n.type, n.value, c, n.right)>> \in Ordered(T)
  <2> DEFINE m == Node(n.type, n.value, c, n.right)
  <2>1. m \in T /\ m.type = n.type /\ m.value = n.value /\ m.left = c /\ m.right = n.right
    BY <1>4 DEF Closed, Node
  <2>2. Within(CallsOf(c), CallsOf(n.left))
    BY <1>4 DEF Ordered
  <2> HIDE DEF m
  <2>3. <<n, m>> \in Ordered(T)
    BY <1>3, <2>1, <2>2, OrderedByChildren
  <2> QED BY <2>3 DEF m
<1>5. ASSUME NEW n \in T, NEW c \in T, n.right \in T, <<n.right, c>> \in Ordered(T)
      PROVE  <<n, Node(n.type, n.value, n.left, c)>> \in Ordered(T)
  <2> DEFINE m == Node(n.type, n.value, n.left, c)
  <2>1. m \in T /\ m.type = n.type /\ m.value = n.value /\ m.left = n.left /\ m.right = c
    BY <1>5 DEF Closed, Node
  <2>2. Within(CallsOf(c), CallsOf(n.right))
    BY <1>5 DEF Ordered
  <2> HIDE DEF m
  <2>3. <<n, m>> \in Ordered(T)
    BY <1>3, <2>1, <2>2, OrderedByChildren
  <2> QED BY <2>3 DEF m
<1> QED BY <1>1, <1>2, <1>4, <1>5 DEF Compositional

LEMMA SimplifiedIsOrdered ==
  ASSUME NEW T, Closed(T), CallsOfParts(T), NEW n \in T
  PROVE  <<n, Simplified(n)>> \in Ordered(T)
<1> DEFINE s == Simplified(n)
<1>1. /\ s \in T
      /\ s = n \/ s = n.left \/ s = n.right \/ \E v : s = Constant(v)
  BY KindsOfSimplified
<1>2. Within(CallsOf(s), CallsOf(n))
  <2>1. CASE s = n \/ s = n.left \/ s = n.right
    BY <2>1, CallsBelow, CallsWithin, WithinItself
  <2>2. CASE \E v : s = Constant(v)
    <3>1. s.left = NoNode /\ s.right = NoNode /\ s.type = "NUM"
      BY <2>2, OfConstants
    <3> HIDE DEF s
    <3>2. CallsOf(s) = << >> \o << >> \o << >>
      BY <1>1, <3>1 DEF CallsOfParts
    <3>3. << >> \o << >> = << >>
      BY ConcatEmptySeq, Short DEF IsSeq
    <3>4. CallsOf(s) = << >>
      BY <3>2, <3>3
    <3> QED BY <3>4, CallsBelow, WithinItself
  <2> QED BY <1>1, <2>1, <2>2
<1> QED BY <1>1, <1>2 DEF Ordered

(* Calls may be dropped with an operand that does not matter, but over all *)
(* passes none comes twice or before one that was written in front of it.  *)
THEOREM CallsStayInOrder ==
  ASSUME NEW T, Closed(T), Exprs \subseteq T, CallsOfParts(T)
  PROVE  MSpec => []CallsInOrder
<1>1. PICK R : R = Ordered(T)
  OBVIOUS
<1>2. PICK always \in BOOLEAN : always
  OBVIOUS
<1>3. Compositional(R, T)
  BY <1>1, OrderedIsCompositional
<1>4. \A n \in T : always \/ ~Refused(n) => <<n, Simplified(n)>> \in R
  BY <1>1, SimplifiedIsOrdered
<1>5. MSpec => []Related(R, always)
  BY <1>3, <1>4, ChangesAreRelated
<1>6. Related(R, always) => CallsInOrder
  BY <1>1, <1>2 DEF Related, Ordered, CallsInOrder
<1> QED BY <1>5, <1>6, PTL
===============================================================================
