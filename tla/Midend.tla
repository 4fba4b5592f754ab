-------------------------------- MODULE Midend --------------------------------
(***************************************************************************)
(* Language/Midend: optimize() going over the syntax tree, from the leaves *)
(* to the root, until a pass changes nothing.  simplify() folds a node of  *)
(* two constants and solves the trivial expressions.                       *)
(*                                                                         *)
(* simplify() calls itself for the children of a node first; `calls' are   *)
(* its activations, the innermost first, each with its root and with the   *)
(* sides for which its call has not returned.  A call with NULL returns at *)
(* once and is left out.  What happens to one node is in Simplification.   *)
(***************************************************************************)
EXTENDS Simplification, Sequences

CONSTANT Exprs  \* the trees optimize() is given

VARIABLES expr,         \* the tree it was given
          tree,         \* root
          calls,
          change_flag,
          mid_error,    \* *error_code
          mstage        \* optimize, simplify, optimized

mvars == <<expr, tree, calls, change_flag, mid_error, mstage>>

-------------------------------------------------------------------------------
(* The activations of simplify.                                            *)
Sides(node) ==
  (IF node.left = NoNode THEN {} ELSE {"left"})
    \cup (IF node.right = NoNode THEN {} ELSE {"right"})

Activation(node) == [node |-> node, todo |-> Sides(node)]

(* The child that is simplified next, the left one first.                  *)
Child(call) == IF "left" \in call.todo THEN call.node.left ELSE call.node.right

(* Faulty variant: what has become of a child is put on the other side.    *)
ResumedSwapped(call, child) ==
  LET node == call.node
  IN  IF "left" \in call.todo
      THEN [node |-> Node(node.type, node.value, node.right, child), todo |-> call.todo \ {"left"}]
      ELSE [node |-> Node(node.type, node.value, node.left, child), todo |-> {}]

(* What has become of it is put in its place.                              *)
Resumed(call, child) ==
  LET node == call.node
  IN  IF "left" \in call.todo
      THEN [node |-> Node(node.type, node.value, child, node.right), todo |-> call.todo \ {"left"}]
      ELSE [node |-> Node(node.type, node.value, node.left, child), todo |-> {}]
-------------------------------------------------------------------------------
BeginWith(given) ==
  /\ expr = given
  /\ tree = given
  /\ calls = << >>
  /\ change_flag = TRUE
  /\ mid_error = "MID_ALL_GOOD"
  /\ mstage = "optimize"

MInit == \E given \in Exprs : BeginWith(given)

(* Faulty variant: the flag of the last pass stays.                        *)
PassKeepingFlag ==
  /\ mstage = "optimize" /\ change_flag
  /\ calls' = << Activation(tree) >>
  /\ mstage' = "simplify"
  /\ UNCHANGED <<expr, tree, change_flag, mid_error>>

(* The loop of optimize() has no error to stop it.                         *)
Pass ==
  /\ mstage = "optimize" /\ change_flag
  /\ calls' = << Activation(tree) >>
  /\ change_flag' = FALSE
  /\ mstage' = "simplify"
  /\ UNCHANGED <<expr, tree, mid_error>>

(* simplify() calls itself.                                                *)
Descend ==
  /\ mstage = "simplify" /\ Head(calls).todo # {}
  /\ calls' = << Activation(Child(Head(calls))) >> \o calls
  /\ UNCHANGED <<expr, tree, change_flag, mid_error, mstage>>

(* It returns, to itself or to optimize().                                 *)
Return(node) ==
  IF Len(calls) = 1
  THEN /\ calls' = << >>
       /\ tree' = node
       /\ mstage' = "optimize"
  ELSE /\ calls' = [Tail(calls) EXCEPT ![1] = Resumed(@, node)]
       /\ UNCHANGED <<tree, mstage>>

(* Faulty variant: folding constants is not noted as a change.             *)
SimplifyUnnoted ==
  /\ mstage = "simplify" /\ Head(calls).todo = {}
  /\ LET folded == FoldConsts(Head(calls).node)
     IN  /\ Return(SolveTrivialExpr(folded))
         /\ change_flag' = (change_flag \/ SolveTrivialExpr(folded) # folded)
  /\ UNCHANGED <<expr, mid_error>>

(* The children are done; a later error replaces an earlier one.           *)
Simplify ==
  /\ mstage = "simplify" /\ Head(calls).todo = {}
  /\ LET node == Head(calls).node
         folded == FoldConsts(node)
         solved == SolveTrivialExpr(folded)
     IN  /\ Return(solved)
         /\ change_flag' = (change_flag \/ Foldable(node) \/ solved # folded)
         /\ mid_error' = IF Foldable(node) /\ EvalError(node) # "MID_ALL_GOOD"
                         THEN EvalError(node) ELSE mid_error
  /\ UNCHANGED expr

Optimized ==
  /\ mstage = "optimize" /\ ~change_flag
  /\ mstage' = "optimized"
  /\ UNCHANGED <<expr, tree, calls, change_flag, mid_error>>

MNext == Pass \/ Descend \/ Simplify \/ Optimized

MSpec == MInit /\ [][MNext]_mvars /\ WF_mvars(MNext)

Accepted == mstage = "optimized" /\ mid_error = "MID_ALL_GOOD"
===============================================================================
