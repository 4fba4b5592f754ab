------------------------------- MODULE Tatlang -------------------------------
(***************************************************************************)
(* What a Tatlang programmer writes and what it means: the reference that  *)
(* the compiled program is compared with.  A program is a sequence of      *)
(* functions and the body of main; a body is a sequence of commands, and   *)
(* `if' and `while' have a command, which may be a block.                  *)
(* The meaning follows the grammar and the example of README.md, with the  *)
(* usual block scopes: an assignment goes to the innermost variable of the *)
(* name there is, and makes one in the current scope if there is none.     *)
(***************************************************************************)
EXTENDS Parser, Integers, SequencesExt

(* Expressions.                                                            *)
Num(n) == [kind |-> "num", value |-> n]
Var(x) == [kind |-> "var", name |-> x]
Op(op, a, b) == [kind |-> "op", op |-> op, left |-> a, right |-> b]
Cond(cond, a, b) == [kind |-> "cond", cond |-> cond, left |-> a, right |-> b]
Func(f, args) == [kind |-> "func", name |-> f, args |-> args]

(* Commands.                                                               *)
Ass(x, e) == [kind |-> "ass", name |-> x, expr |-> e]
GetVar(x) == [kind |-> "getvar", name |-> x]
PutExpr(e) == [kind |-> "putexpr", expr |-> e]
CmdFunc(f, args) == [kind |-> "cmd_func", call |-> Func(f, args)]
Return(e) == [kind |-> "return", expr |-> e]
If(e, body) == [kind |-> "if", expr |-> e, body |-> body]
While(e, body) == [kind |-> "while", expr |-> e, body |-> body]
Block(body) == [kind |-> "block", body |-> body]

(* Programs.                                                               *)
FuncDecl(f, params, body) == [name |-> f, params |-> params, body |-> body]
Program(funcs, main) == [before |-> << >>, funcs |-> funcs, main |-> main]

(* The grammar allows commands outside of functions, too.                  *)
Preceded(commands, p) == [p EXCEPT !.before = commands]
-------------------------------------------------------------------------------
(* The tokens of a program.                                                *)
Sign(type) == << Token(type, 0) >>

Word(type, value) == << Token(type, value) >>

InBrackets(toks) == Sign("OPEN_BR") \o toks \o Sign("CLOSE_BR")

Separated(parts) ==
  IF parts = << >> THEN << >>
  ELSE FlattenSeq([i \in DOMAIN parts |-> IF i = 1 THEN parts[i] ELSE Sign("COMMA") \o parts[i]])

RECURSIVE ExprTokens(_), CmdTokens(_), BodyTokens(_)

ExprTokens(e) ==
  CASE e.kind = "num" -> Word("NUM", e.value)
    [] e.kind = "var" -> Word("VAR", e.name)
    [] e.kind = "op" ->
         InBrackets(ExprTokens(e.left) \o Word("OP", e.op) \o ExprTokens(e.right))
    [] e.kind = "cond" ->
         InBrackets(ExprTokens(e.left) \o Sign(e.cond) \o ExprTokens(e.right))
    [] e.kind = "func" ->
         Word("FUNC", e.name) \o InBrackets(Separated([i \in DOMAIN e.args |-> ExprTokens(e.args[i])]))

CmdTokens(c) ==
  CASE c.kind = "ass" ->
         Word("VAR", c.name) \o Word("OP", "ASS") \o ExprTokens(c.expr) \o Sign("SEMICOLON")
    [] c.kind = "getvar" ->
         Word("STD_FUNC", "GETVAR") \o InBrackets(Word("VAR", c.name)) \o Sign("SEMICOLON")
    [] c.kind = "putexpr" ->
         Word("STD_FUNC", "PUTEXPR") \o InBrackets(ExprTokens(c.expr)) \o Sign("SEMICOLON")
    [] c.kind = "cmd_func" -> ExprTokens(c.call) \o Sign("SEMICOLON")
    [] c.kind = "return" -> Sign("RETURN") \o ExprTokens(c.expr) \o Sign("SEMICOLON")
    [] c.kind = "if" -> Sign("IF") \o InBrackets(ExprTokens(c.expr)) \o CmdTokens(c.body)
    [] c.kind = "while" -> Sign("WHILE") \o InBrackets(ExprTokens(c.expr)) \o CmdTokens(c.body)
    [] c.kind = "block" -> BodyTokens(c.body)

Sequence(body) == FlattenSeq([i \in DOMAIN body |-> CmdTokens(body[i])])

BodyTokens(body) == Sign("OPEN_CBR") \o Sequence(body) \o Sign("CLOSE_CBR")

ProgramTokens(p) ==
  Sequence(p.before) \o
  FlattenSeq([i \in DOMAIN p.funcs |->
      Sign("DECLARE") \o Word("FUNC", p.funcs[i].name)
        \o InBrackets(Separated([k \in DOMAIN p.funcs[i].params |-> Word("VAR", p.funcs[i].params[k])]))
        \o BodyTokens(p.funcs[i].body)])
  \o Sign("MAIN") \o BodyTokens(p.main) \o Sign("END")
-------------------------------------------------------------------------------
(* A run: the scopes of the running function, innermost first; what has    *)
(* been printed; the value of the last expression; and whether the         *)
(* function has returned.  Every input is the same number.                 *)
Run(scopes, out, value) ==
  [scopes |-> scopes, out |-> out, value |-> value, returned |-> FALSE]

NoVars == << >>

Holding(scopes, x) == {i \in DOMAIN scopes : x \in DOMAIN scopes[i]}

ValueOf(scopes, x) ==
  LET i == CHOOSE i \in Holding(scopes, x) : \A j \in Holding(scopes, x) : i <= j
  IN  scopes[i][x]

Assigned(scopes, x, v) ==
  LET held == Holding(scopes, x)
      i == IF held = {} THEN 1 ELSE CHOOSE i \in held : \A j \in held : i <= j
  IN  [scopes EXCEPT ![i] = [y \in DOMAIN scopes[i] \cup {x} |->
                               IF y = x THEN v ELSE scopes[i][y]]]

Apply(op, a, b) ==
  CASE op = "ADD" -> a + b [] op = "SUB" -> a - b [] op = "MUL" -> a * b

Holds(cond, a, b) ==
  CASE cond = "ABOVE" -> a > b        [] cond = "BELOW" -> a < b
    [] cond = "ABOVE_EQUAL" -> a >= b [] cond = "BELOW_EQUAL" -> a <= b
    [] cond = "EQUAL" -> a = b        [] cond = "NOT_EQUAL" -> a # b

RECURSIVE Eval(_, _, _, _), Exec(_, _, _, _)

(* The run after the expression e of program p; r.value is its value.      *)
Eval(p, input, e, r) ==
  LET left == Eval(p, input, e.left, r)
      right == Eval(p, input, e.right, left)
      \* the values of the arguments, from the left
      args[i \in 0..Len(e.args)] ==
        IF i = 0 THEN << << >>, r >>
        ELSE LET arg == Eval(p, input, e.args[i], args[i - 1][2])
             IN  << Append(args[i - 1][1], arg.value), arg >>
      f == CHOOSE i \in DOMAIN p.funcs : p.funcs[i].name = e.name
      values == args[Len(e.args)][1]
      before == args[Len(e.args)][2]
      params == p.funcs[f].params
      callee == << [x \in ToSet(params) |-> values[CHOOSE k \in DOMAIN params : params[k] = x]] >>
      after == Exec(p, input, p.funcs[f].body, Run(callee, before.out, 0))
  IN  CASE e.kind = "num" -> [r EXCEPT !.value = e.value]
        [] e.kind = "var" -> [r EXCEPT !.value = ValueOf(r.scopes, e.name)]
        [] e.kind = "op" -> [right EXCEPT !.value = Apply(e.op, left.value, @)]
        [] e.kind = "cond" -> [right EXCEPT !.value = IF Holds(e.cond, left.value, @) THEN 1 ELSE 0]
        [] e.kind = "func" -> [before EXCEPT !.out = after.out, !.value = after.value]

(* The run after the commands of body.                                     *)
Exec(p, input, body, r) ==
  LET c == Head(body)
      e == Eval(p, input, c.expr, r)
      block == Exec(p, input, c.body, [r EXCEPT !.scopes = << NoVars >> \o @])
      left(s) == [s EXCEPT !.scopes = Tail(@)]
      after == CASE c.kind = "ass" -> [e EXCEPT !.scopes = Assigned(@, c.name, e.value)]
                 [] c.kind = "getvar" -> [r EXCEPT !.scopes = Assigned(@, c.name, input)]
                 [] c.kind = "putexpr" -> [e EXCEPT !.out = Append(@, e.value)]
                 [] c.kind = "cmd_func" -> Eval(p, input, c.call, r)
                 [] c.kind = "return" -> [e EXCEPT !.returned = TRUE]
                 [] c.kind = "if" -> IF e.value = 0 THEN e ELSE Exec(p, input, << c.body >>, e)
                 [] c.kind = "while" ->
                      IF e.value = 0 THEN e ELSE Exec(p, input, << c.body, c >>, e)
                 [] c.kind = "block" -> left(block)
  IN  IF r.returned \/ body = << >> THEN r ELSE Exec(p, input, Tail(body), after)

(* What a program prints, beginning with main, when every input is the given number.             *)
Prints(p, input) == Exec(p, input, p.main, Run(<< NoVars >>, << >>, 0)).out
===============================================================================
