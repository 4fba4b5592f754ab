-------------------------------- MODULE Parser --------------------------------
(***************************************************************************)
(* Recursive_parser: get_general() and the functions it descends into,     *)
(* from the cells of the buffer of tokens to a syntax tree.                *)
(*                                                                         *)
(* The closing brace of a scope makes no node of its own: it is a debt     *)
(* (sce_debt) that the next command or scope pays with SCOPE_END nodes.    *)
(*                                                                         *)
(* Each function takes the state the one before it left and returns its    *)
(* own.  A state that is not ok stands for a NULL: most callers pass it up *)
(* at once, and four of them take it for a node and read on from the token *)
(* where it was noticed.                                                   *)
(*                                                                         *)
(* Nothing stops the descent at the END token: get_id takes it as it takes *)
(* any other, and the cells behind it are read like tokens.  Where no cell *)
(* is left, what is read is undefined; the descent is astray then, and is  *)
(* not followed further.                                                   *)
(***************************************************************************)
EXTENDS BTree, Sequences, Naturals

State(toks, debt, node) == [ok |-> TRUE, toks |-> toks, debt |-> debt, node |-> node]

(* NULL is returned, and id and sce_debt stay as they are.                 *)
Failed(s) == [s EXCEPT !.ok = FALSE, !.node = NoNode]

(* A state fails where it has read: behind the last cell, if none is left. *)
Astray(s) == ~s.ok /\ s.toks = << >>

(* The caller that does not look whether it got NULL.                      *)
Unchecked(s) == [s EXCEPT !.ok = ~Astray(s)]

CUR_TYPE(s) == IF s.ok /\ s.toks # << >> THEN Head(s.toks).type ELSE "NONE"

CUR_VALUE(s) == Head(s.toks).value

(* id++                                                                    *)
Next(s) == [s EXCEPT !.toks = Tail(@)]

SYNTAX_CHECK(s, type) == IF CUR_TYPE(s) = type THEN Next(s) ELSE Failed(s)

(* A node made of the one that was just parsed.                            *)
Making(s, Build(_)) == IF s.ok THEN [s EXCEPT !.node = Build(@)] ELSE s

With(s, node) == Making(s, LAMBDA n : node)

Leaf(type, value) == Node(type, value, NoNode, NoNode)

(* A token of any type is taken for an identifier, END as well.            *)
GetId(s) ==
  IF CUR_TYPE(s) = "NONE" THEN Failed(s) ELSE With(Next(s), Leaf("VAR", CUR_VALUE(s)))

GetNum(s) == With(Next(s), Leaf("NUM", CUR_VALUE(s)))
-------------------------------------------------------------------------------
RECURSIVE GetExpr(_), GetScope(_), GetTerm(_, _), ListAfter(_, _)

GetItem(s, items) == IF items = "id" THEN GetId(s) ELSE GetExpr(s)

(* Identifiers or expressions, each in a COMMA node, up to the bracket;    *)
(* only of the first is it checked that there is one.                      *)
ListAfter(item, items) ==
  CASE CUR_TYPE(item) = "CLOSE_BR" ->
         With(Next(item), Node("COMMA", 0, item.node, NoNode))
    [] CUR_TYPE(item) = "COMMA" ->
         Making(ListAfter(Unchecked(GetItem(Next(item), items)), items),
                LAMBDA rest : Node("COMMA", 0, item.node, rest))
    [] OTHER -> Failed(item)

GetList(s, items) == ListAfter(GetItem(s, items), items)

(* Faulty variant: a call that is a command leaves its result, too.        *)
AlwaysFunc(cmd_func) == "FUNC"

FuncType(cmd_func) == IF cmd_func THEN "CMD_FUNC" ELSE "FUNC"

GetFunc(s, cmd_func) ==
  Making(GetList(SYNTAX_CHECK(GetId(s), "OPEN_BR"), "expr"),
         LAMBDA args : Node(FuncType(cmd_func), CUR_VALUE(s), args, NoNode))

Bracketed(s) == SYNTAX_CHECK(GetExpr(SYNTAX_CHECK(s, "OPEN_BR")), "CLOSE_BR")

GetUnary(s) ==
  Making(Bracketed(Next(s)), LAMBDA child : Node("UNR_OP", CUR_VALUE(s), NoNode, child))

GetPar(s) ==
  CASE CUR_TYPE(s) = "OPEN_BR" -> Bracketed(s)
    [] CUR_TYPE(s) = "NUM"     -> GetNum(s)
    [] CUR_TYPE(s) = "UNR_OP"  -> GetUnary(s)
    [] CUR_TYPE(s) = "FUNC"    -> GetFunc(s, FALSE)
    [] OTHER                   -> GetId(s)

(* get_pow, get_mul and the sums of get_expr: operands one level down,     *)
(* joined from the left.                                                   *)
LevelOps == [sum |-> {"ADD", "SUB"}, mul |-> {"MUL", "DIV"}, pow |-> {"POW"}]

LevelBelow == [sum |-> "mul", mul |-> "pow", pow |-> "par"]

RECURSIVE MoreOperands(_, _)
MoreOperands(val, level) ==
  IF CUR_TYPE(val) = "OP" /\ CUR_VALUE(val) \in LevelOps[level]
  THEN MoreOperands(Making(GetTerm(Next(val), LevelBelow[level]),
                           LAMBDA val_2 : Node("OP", CUR_VALUE(val), val.node, val_2)), level)
  ELSE val

GetTerm(s, level) ==
  IF level = "par" THEN GetPar(s)
  ELSE MoreOperands(GetTerm(s, LevelBelow[level]), level)

(* One comparison of two terms, or a sum of them.                          *)
ExprAfter(val) ==
  IF CUR_TYPE(val) \in Conditions
  THEN Making(GetTerm(Next(val), "mul"),
              LAMBDA val_2 : Node(CUR_TYPE(val), 0, val.node, val_2))
  ELSE MoreOperands(val, "sum")

GetExpr(s) == ExprAfter(GetTerm(s, "mul"))
-------------------------------------------------------------------------------
(* Faulty variant: the scope is not looked at.                             *)
CondUnchecked(cond, type) ==
  IF cond.ok
  THEN Making(Unchecked(GetScope(cond)), LAMBDA body : Node(type, 0, cond.node, body))
  ELSE cond

CondAfter(cond, type) ==
  Making(GetScope(cond), LAMBDA body : Node(type, 0, cond.node, body))

GetCond(s) == CondAfter(Bracketed(Next(s)), CUR_TYPE(s))

GetStdFunc(s) ==
  LET open == SYNTAX_CHECK(Next(s), "OPEN_BR")
  IN  Making(SYNTAX_CHECK(IF CUR_VALUE(s) = "GETVAR" THEN GetId(open) ELSE GetExpr(open),
                          "CLOSE_BR"),
             LAMBDA child : Node("STD_FUNC", CUR_VALUE(s), NoNode, child))

BodyAfter(args, name) ==
  IF args.ok
  THEN Making(Unchecked(GetScope(args)),
              LAMBDA body : Node("FUNC_DECL", name.node.value, args.node, body))
  ELSE args

GetFuncDecl(s) ==
  LET name == GetId(Next(s))
  IN  BodyAfter(GetList(SYNTAX_CHECK(name, "OPEN_BR"), "id"), name)

GetMain(s) ==
  Making(Unchecked(GetScope(Next(s))), LAMBDA body : Node("MAIN", 0, NoNode, body))

GetReturn(s) ==
  Making(Unchecked(GetExpr(Next(s))), LAMBDA expr : Node("RETURN", 0, NoNode, expr))

GetAss(s) ==
  LET var == GetId(s)
  IN  Making(IF CUR_TYPE(var) = "OP" /\ CUR_VALUE(var) = "ASS"
             THEN GetExpr(Next(var)) ELSE Failed(var),
             LAMBDA expr : Node("OP", "ASS", var.node, expr))

(* SCOPE_END nodes, the last of them over the command.                     *)
PayDebtCmd(cmd, debt) ==
  LET chain[d \in 1..debt] ==
        IF d = 1 THEN Node("SCOPE_END", 0, cmd, NoNode)
        ELSE Node("SCOPE_END", 0, NoNode, chain[d - 1])
  IN  chain[debt]

PayDebtScope(root, debt) ==
  LET chain[d \in 0..debt] ==
        IF d = 0 THEN root ELSE Node("SCOPE_END", 0, NoNode, chain[d - 1])
  IN  chain[debt]

(* Faulty variant: one SCOPE_END, however many scopes have been closed.    *)
PayOnce(cmd, debt) ==
  IF debt > 0 THEN PayDebtCmd(cmd, 1) ELSE Node("SEMICOLON", 0, cmd, NoNode)

(* PAY_CMD_DEBT                                                            *)
Pay(cmd, debt) ==
  IF debt > 0 THEN PayDebtCmd(cmd, debt) ELSE Node("SEMICOLON", 0, cmd, NoNode)

(* take_debt comes first: the scopes of the command make new debts.        *)
GetCmd(s) ==
  LET free == [s EXCEPT !.debt = 0]
      type == CUR_TYPE(s)
  IN  Making(CASE type \in {"IF", "WHILE"} -> GetCond(free)
               [] type = "DECLARE"  -> GetFuncDecl(free)
               [] type = "MAIN"     -> GetMain(free)
               [] type = "STD_FUNC" -> SYNTAX_CHECK(GetStdFunc(free), "SEMICOLON")
               [] type = "FUNC"     -> SYNTAX_CHECK(GetFunc(free, TRUE), "SEMICOLON")
               [] type = "RETURN"   -> SYNTAX_CHECK(GetReturn(free), "SEMICOLON")
               [] OTHER             -> SYNTAX_CHECK(GetAss(free), "SEMICOLON"),
             LAMBDA cmd : Pay(cmd, s.debt))

(* The rightmost node, where move_scope_end leads, gets the next command.  *)
RECURSIVE Attach(_, _)
Attach(root, next) ==
  IF root.right = NoNode THEN [root EXCEPT !.right = next]
  ELSE [root EXCEPT !.right = Attach(root.right, next)]

(* The loop of get_all_scopes.                                             *)
RECURSIVE MoreScopes(_, _)
MoreScopes(s, end_type) ==
  IF ~s.ok \/ CUR_TYPE(s) = end_type THEN s
  ELSE MoreScopes(Making(GetScope(s), LAMBDA next : Attach(s.node, next)), end_type)

GetAllScopes(s, end_type) == MoreScopes(GetScope(s), end_type)

ManageScopes(root) ==
  IF root.type = "SCOPE_START" THEN Node("SCOPE_START", 0, NoNode, root)
  ELSE [root EXCEPT !.type = "SCOPE_START"]

ScopeAfter(all, debt) ==
  IF ~all.ok THEN all
  ELSE [Next(all) EXCEPT !.debt = all.debt + 1,
                         !.node = PayDebtScope(ManageScopes(all.node), debt)]

GetScope(s) ==
  IF CUR_TYPE(s) # "OPEN_CBR" THEN IF s.ok THEN GetCmd(s) ELSE s
  ELSE ScopeAfter(GetAllScopes([Next(s) EXCEPT !.debt = 0], "CLOSE_CBR"), s.debt)

(* Where the descent ends: with the tree of the tokens, with NoNode for a  *)
(* syntax error that is noticed, or astray.                                *)
GetGeneral(cells) ==
  LET s == State(cells, 0, NoNode)
  IN  IF CUR_TYPE(s) = "END" THEN With(s, Leaf("SEMICOLON", 0))
      ELSE GetAllScopes(s, "END")
===============================================================================
