------------------------------ MODULE MCLanguage ------------------------------
(***************************************************************************)
(* The language for TLC: labels break_0 ... break_12, of which some are    *)
(* prefixes of others, and one number that every input answers.            *)
(***************************************************************************)
EXTENDS Language

Lang == INSTANCE Tatlang
P == INSTANCE MCPrograms

(* The programs are parsed by module Parser, and mean what Tatlang says.   *)
MCParsed == [p \in Programs |-> Lang!GetGeneral(Lang!ProgramTokens(p)).node]
MCMeaning == [p \in Programs |-> {Lang!Prints(p, input) : input \in Entered}]
MCComputed(op, a, b) == Lang!Apply(op, a, b)

MCPlain == P!Plain \cup P!Outside
MCComparisons == P!Comparisons
MCInnerCalls == P!InnerCalls

MCNames ==
  {NoName, <<"main", 0>>, P!f, P!g} \cup ({"break", "while"} \X (0..12))

MCPrefixes ==
  {<<n, n>> : n \in MCNames}
  \cup {<< <<w, 1>>, <<w, n>> >> : w \in {"break", "while"}, n \in 10..12}

MCMain == <<"main", 0>>
MCInput == 1
MCEntered == {MCInput}
MCNone == {}
-------------------------------------------------------------------------------
(* What the theorems of modules BackendProofs and ToolchainProofs          *)
(* presuppose, of the trees that the parser builds and the midend          *)
(* simplifies: Balanced, WellNamed and WellLabelled, and that there is     *)
(* main.                                                                   *)
Scoping == {"SEMICOLON", "SCOPE_START", "SCOPE_END"}
Testing == {"IF", "WHILE"} \cup Conditions
Holding == Scoping \cup {"WHILE", "IF", "FUNC_DECL", "MAIN"}

Opened(n) == IF n.type = "SCOPE_START" THEN 1 ELSE IF n.type = "SCOPE_END" THEN -1 ELSE 0

RECURSIVE Rise(_), Need(_), Declared(_), Called(_), Quiet(_), Listed(_), Regular(_)
Rise(n) ==
  CASE n.type \in Scoping -> Opened(n) + Rise(n.left) + Rise(n.right)
    [] n.type \in {"IF", "WHILE"} -> Rise(n.right)
    [] OTHER -> 0

Need(n) ==
  CASE n.type \in Scoping ->
         P!Max({IF n.type = "SCOPE_END" THEN 2 ELSE 0, Need(n.left) - Opened(n),
              Need(n.right) - Opened(n) - Rise(n.left)})
    [] n.type \in {"IF", "WHILE"} -> Need(n.right)
    [] OTHER -> 0

(* Functions with main, in a sequence as they may be declared twice.       *)
Declared(n) ==
  IF n = NoNode THEN << >>
  ELSE (CASE n.type = "FUNC_DECL" -> << n.value >> [] n.type = "MAIN" -> << MainLabel >> [] OTHER -> << >>)
         \o Declared(n.left) \o Declared(n.right)

Called(n) ==
  IF n = NoNode THEN {}
  ELSE (IF n.type \in {"FUNC", "CMD_FUNC"} THEN {n.value} ELSE {}) \cup Called(n.left) \cup Called(n.right)

Quiet(n) == n = NoNode \/ (n.type \notin Testing /\ Quiet(n.left) /\ Quiet(n.right))

Name(v) == DOMAIN v = 1..2 /\ v[1] \in STRING /\ v[2] \in Nat

Listed(c) == c = NoNode \/ (Name(c.left.value) /\ Listed(c.right))

Regular(n) ==
  n = NoNode \/
    /\ Regular(n.left) /\ Regular(n.right)
    /\ n.type \in {"IF", "WHILE"} => n.left.type \notin Holding
    /\ n.type = "IF" => Quiet(n.right)
    /\ n.type \in {"FUNC_DECL", "MAIN"} => Need(n.right) = 0 /\ Declared(n.left) = << >>
    /\ n.type \notin Holding => n.left.type \notin Holding /\ n.right.type \notin Holding
    /\ n.type \in {"OP", "UNR_OP"} /\ n.value = "ASS" => Name(n.left.value)
    /\ n.type = "STD_FUNC" /\ n.value = "GETVAR" => Name(n.right.value)
    /\ n.type = "FUNC_DECL" => Listed(n.left)
    /\ n.type \in {"FUNC", "CMD_FUNC", "FUNC_DECL"} => Name(n.value)
    /\ n.type = "NUM" => n.value \in Int

(* What optimize() makes of a tree: passes, until one changes nothing.     *)
RECURSIVE Simplified(_), Optimized(_)
Simplified(n) ==
  IF n = NoNode THEN n
  ELSE Mid!SolveTrivialExpr(Mid!FoldConsts(
         Node(n.type, n.value, Simplified(n.left), Simplified(n.right))))

Optimized(n) == IF Simplified(n) = n THEN n ELSE Optimized(Simplified(n))

Fit(n) ==
  LET functions == Declared(n)
  IN  /\ Regular(n)
      /\ \A i, j \in DOMAIN functions : functions[i] = functions[j] => i = j
      /\ \A i \in DOMAIN functions : functions[i][1] \notin {"break", "while"}
      /\ Called(n) \cup {MainLabel} \subseteq {functions[i] : i \in DOMAIN functions}

ASSUME PremisesOfTheBackend ==
  \A p \in Programs : Fit(Parsed[p]) /\ Fit(Optimized(Parsed[p]))
===============================================================================
