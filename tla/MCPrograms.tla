------------------------------ MODULE MCPrograms ------------------------------
(***************************************************************************)
(* Tatlang programs for TLC.                                               *)
(***************************************************************************)
EXTENDS Tatlang

x == <<"x", 0>>
y == <<"y", 0>>
z == <<"z", 0>>
f == <<"f", 0>>
g == <<"g", 0>>

Is(a, n) == Cond("EQUAL", a, Num(n))
Plus(a, n) == Op("ADD", a, Num(n))
Minus(a, n) == Op("SUB", a, Num(n))
F(arg) == Func(f, << arg >>)

(* Functions of one parameter: with and without a local variable, a loop,  *)
(* returns out of an if, and recursion in the outermost scope.             *)
Functions ==
  {FuncDecl(f, << x >>, body) : body \in
     { << Return(Plus(Var(x), 1)) >>,
       << Ass(y, Plus(Var(x), 1)), Return(Op("ADD", Var(y), Var(x))) >>,
       << If(Is(Var(x), 1), Block(<< Return(Num(2)) >>)), Ass(x, Num(0)), Return(Var(x)) >>,
       << If(Is(Var(x), 0), Return(Num(1))), If(Is(Var(x), 1), Block(<< Return(Num(1)) >>)),
          Return(Op("ADD", F(Minus(Var(x), 1)), F(Minus(Var(x), 2)))) >>,
       << While(Is(Var(x), 1), Block(<< Ass(y, Num(2)), Ass(x, Var(y)) >>)),
          Ass(z, Num(0)), PutExpr(Var(z)), Return(Var(x)) >> }}

(* What the midend folds, and drops.                                       *)
Simplified ==
  { PutExpr(Op("MUL", Op("SUB", Num(3), Num(2)), Plus(Var(x), 0))),
    Ass(x, Op("SUB", Num(0), Op("MUL", Plus(Num(1), 1), Var(x)))),
    Ass(y, Op("SUB", Op("ADD", Var(x), Op("SUB", Var(x), Var(x))), Op("MUL", Var(x), Num(1)))),
    While(Op("MUL", Var(x), Minus(Num(2), 2)), Ass(x, Num(3))),
    If(Op("SUB", Num(2), Num(1)), Block(<< Ass(y, Op("SUB", Var(x), Num(0))), PutExpr(Var(y)) >>)) }

(* Commands for main, where x is a variable.                               *)
Commands ==
  { Ass(x, Num(1)), GetVar(x), PutExpr(Is(Var(x), 1)),
    Ass(y, Plus(Var(x), 1)),
    Block(<< Ass(y, Var(x)), PutExpr(Var(y)) >>),
    Block(<< Block(<< Ass(x, Plus(Var(x), 1)) >>) >>),
    If(Is(Var(x), 2), Block(<< Ass(y, Num(0)), PutExpr(Var(y)) >>)),
    While(Is(Var(x), 1), Ass(x, Num(0))),
    While(Is(Var(x), 1), Block(<< Ass(y, Plus(Var(x), 1)), Ass(z, Var(y)), Ass(x, Var(z)) >>)),
    While(Var(x), Block(<< Block(<< Ass(z, Minus(Var(x), 1)), Ass(x, Var(z)) >>) >>)),
    While(Is(Var(x), 2), Block(<< Ass(z, Num(0)), Block(<< Ass(x, Num(3)) >>) >>)) }

Calls ==
  { Ass(x, F(Var(x))), CmdFunc(f, << Num(1) >>),
    PutExpr(Op("MUL", F(Num(1)), F(Var(x)))),
    If(Is(F(Num(1)), 2), Block(<< PutExpr(Num(2)) >>)),
    Block(<< Ass(x, F(Num(1))) >>) }

Main(body) == << Ass(x, Num(2)) >> \o body \o << PutExpr(Var(x)) >>

(* More variables than registers: g(y, x, z) calls f(x, y).                *)
TwoFunctions ==
  << FuncDecl(f, << x, y >>, << Return(Op("SUB", Var(x), Var(y))) >>),
     FuncDecl(g, << y, x, z >>,
              << Ass(x, Func(f, << Var(y), Var(z) >>)), Return(Op("ADD", Var(x), Var(z))) >>) >>

(* A main in which the first call is made while no variable is known.      *)
Small == Program(TwoFunctions, << PutExpr(Func(g, << Num(2), Num(1), Num(1) >>)) >>)

(* The class of programs the checks are about: comparisons for equality    *)
(* only and never of two constants, no call in an operand that a factor of *)
(* zero makes the midend drop, no jump inside the body of an if, no call   *)
(* inside the arguments of a call or in an inner scope that has variables, *)
(* and no more than ten labels.                                            *)
Plain ==
  {Program(<< >>, Main(body)) : body \in UNION {[1..n -> Commands] : n \in 0..2}}
  \cup {Program(<< >>, Main(<< c, d >>)) : c, d \in Simplified}
  \cup {Program(<< func >>, Main(body)) :
          func \in Functions,
          body \in {<< c >> : c \in Calls} \cup (Calls \X (Commands \cup Calls))
                     \cup (Commands \X Calls)}
  \cup { Program(TwoFunctions, Main(<< Ass(y, Func(g, << Var(x), Num(1), Num(0) >>)), PutExpr(Var(y)) >>)),
         Small,
         Preceded(<< PutExpr(Num(1)) >>, Small) }

(* Commands outside of functions that would need a variable or a scope.    *)
Outside ==
  {Preceded(<< c >>, Small) :
     c \in {Ass(x, Num(1)), PutExpr(Var(x)), CmdFunc(f, << Num(1), Num(2) >>),
            Block(<< PutExpr(Num(1)) >>)}}

(* One comparison of each kind, for each order of two numbers.             *)
Comparisons ==
  {Program(<< >>, << Ass(x, Num(a)), PutExpr(Cond(c, Var(x), Num(2))) >>) :
     c \in Conditions, a \in 1..3}

(* A call in an inner scope that has a variable.                           *)
InnerCalls ==
  {Program(<< func >>, Main(<< Ass(y, Num(1)), Block(<< Ass(z, Num(3)), c >>), PutExpr(Var(y)) >>)) :
     func \in Functions, c \in Calls}
===============================================================================
