-------------------------------- MODULE BTree --------------------------------
(***************************************************************************)
(* The tokens of the frontend, and B_tree: the binary trees the parser     *)
(* builds of them and the midend and the backend walk.  The value of a     *)
(* token or a node is its number, operation, variable or function name, as *)
(* its type has it.                                                        *)
(***************************************************************************)

Token(type, value) == [type |-> type, value |-> value]

Node(type, value, left, right) ==
  [type |-> type, value |-> value, left |-> left, right |-> right]

(* The NULL child.                                                         *)
NoNode == [type |-> "NULL"]

Conditions == {"ABOVE", "BELOW", "ABOVE_EQUAL", "BELOW_EQUAL", "EQUAL", "NOT_EQUAL"}
===============================================================================
