----------------------------- MODULE SourceReader -----------------------------
(***************************************************************************)
(* The first half of test/main.cpp: tokenize(), and parse_tokens() with    *)
(* the tokens it returns.                                                  *)
(***************************************************************************)
EXTENDS Frontend, Parser

VARIABLES root,
          rstage   \* wait, parsed, astray

rvars == <<fvars, root, rstage>>

RInit ==
  /\ FInit
  /\ root = NoNode
  /\ rstage = "wait"

Tokenize == FNext /\ UNCHANGED <<root, rstage>>

(* tokens->data: behind the tokens calloc has left zeros, which is what a  *)
(* number 0 looks like.  The cells that realloc adds are not set at all,   *)
(* and by then all others hold tokens.                                     *)
Unused ==
  IF capacity = STARTER_TOKENS_AMOUNT
  THEN [i \in 1..(capacity - Len(data)) |-> Token("NUM", 0)] ELSE << >>

ParseTokens ==
  /\ fstage = "tokens" /\ rstage = "wait"
  /\ LET end == GetGeneral(data \o Unused)
     IN  /\ root' = end.node
         /\ rstage' = IF Astray(end) THEN "astray" ELSE "parsed"
  /\ UNCHANGED fvars

RNext == Tokenize \/ ParseTokens

(* One thread, which goes on until tokenize() returns.                     *)
RSpec == RInit /\ [][RNext]_rvars /\ WF_rvars(Tokenize)
-------------------------------------------------------------------------------
(* Skeletons of programs: sequences of the words {, }, cmd (an assignment  *)
(* and its semicolon), ret (a return and its semicolon), if (with its      *)
(* condition), main, decl (a function's name and parameter), and decl()    *)
(* and call() (a declaration and a call with an empty list).  One follows  *)
(* the grammar of the parser when its braces are balanced, none of its     *)
(* blocks and lists is empty, and each if, main and decl has a scope       *)
(* behind it.  That is the grammar of src/README.md but for the empty      *)
(* lists, which stand there (the `_' of Func_Decl and Func) and which the  *)
(* parser does not know: it takes the bracket for an argument.             *)
Commands == {"cmd", "ret"}

Count(words, n, set) == Len(SelectSeq(SubSeq(words, 1, n), LAMBDA w : w \in set))

Depth(words, n) == Count(words, n, {"{"}) - Count(words, n, {"}"})

Grammatical(words) ==
  /\ \A n \in 1..Len(words) : Count(words, n, {"{"}) >= Count(words, n, {"}"})
  /\ Depth(words, Len(words)) = 0
  /\ \A n \in 1..Len(words) :
       /\ words[n] \in {"{", "if", "main", "decl"} => n < Len(words) /\ words[n + 1] # "}"
       /\ words[n] \notin {"decl()", "call()"}

(* get_main and get_func_decl do not look whether they got their scope.    *)
Unlooked(words) == \E n \in DOMAIN words : words[n] \in {"main", "decl"}

(* A brace or a scope is missing at the end.                               *)
Unfinished(words) ==
  \/ Depth(words, Len(words)) > 0
  \/ words # << >> /\ words[Len(words)] \in {"if", "main", "decl"}

Parsed == rstage = "parsed" /\ symbs = file.text

(* Exactly the programs that follow the grammar are parsed, but for what   *)
(* get_main and get_func_decl let through.  The others are refused, unless *)
(* something is missing at their end: then END is taken for a part of the  *)
(* program, and where no cell is left behind it the descent goes astray.   *)
AcceptsTheGrammar ==
  symbs = file.text => \A words \in file.words :
    /\ Grammatical(words) /\ rstage # "wait" => Parsed /\ root # NoNode
    /\ root # NoNode => Grammatical(words) \/ Unlooked(words)
    /\ rstage = "astray" => Unfinished(words) \/ Unlooked(words)

(* The debts of closing braces are paid in full, and by the right command: *)
(* going over the tree as the backend does, each command is met with as    *)
(* many scopes open as there are braces open where it was written.         *)
RECURSIVE Met(_, _)
Met(node, walk) ==
  CASE node = NoNode -> walk
    [] node.type \in {"OP", "RETURN"} -> [walk EXCEPT !.depths = Append(@, walk.open)]
    [] node.type = "SCOPE_START" -> Met(node.right, Met(node.left, [walk EXCEPT !.open = @ + 1]))
    [] node.type = "SCOPE_END" -> Met(node.right, Met(node.left, [walk EXCEPT !.open = @ - 1]))
    [] node.type \in {"IF", "FUNC_DECL"} -> Met(node.right, walk)
    [] OTHER -> Met(node.right, Met(node.left, walk))

Written(words) ==
  [k \in 1..Count(words, Len(words), Commands) |->
     LET n == CHOOSE n \in DOMAIN words : words[n] \in Commands /\ Count(words, n, Commands) = k
     IN  Depth(words, n)]

ScopesFollowBraces ==
  Parsed => \A words \in file.words :
    Grammatical(words) => Met(root, [open |-> 0, depths |-> << >>]).depths = Written(words)
===============================================================================
