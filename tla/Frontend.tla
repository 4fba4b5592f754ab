------------------------------- MODULE Frontend -------------------------------
(***************************************************************************)
(* Language/Frontend: tokenize() turning the text of a program into        *)
(* tokens.                                                                 *)
(*                                                                         *)
(* A symbol is a wide character; the letters of a keyword are one symbol.  *)
(* What swscanf makes of letters behind digits (1e5, 0x1f) is left out.    *)
(* A name that is not ended leads get_token out of the text and of its     *)
(* buffer, which is undefined: the stage is then "overrun".                *)
(***************************************************************************)
EXTENDS BTree, Sequences, Naturals

CONSTANTS Files,    \* texts, with their bytes and what has been written in them
          Locales,  \* decimal sign and the symbols that fgetwc can decode
          Letters,  \* the symbols of names, besides the keywords
          MAX_TOKEN_SIZE

STARTER_TOKENS_AMOUNT == 5

Kwds ==
  [bulganda |-> Token("WHILE", 0), agar |-> Token("IF", 0), rais |-> Token("MAIN", 0),
   belderu |-> Token("DECLARE", 0), kirebir |-> Token("RETURN", 0),
   alalmash |-> Token("STD_FUNC", "GETVAR"), misalnyaz |-> Token("STD_FUNC", "PUTEXPR"),
   sin |-> Token("UNR_OP", "SIN"), kos |-> Token("UNR_OP", "COS"), ln |-> Token("UNR_OP", "LN"),
   tamyrasty |-> Token("UNR_OP", "SQRT")]

Blanks == {"space", "newline", "nul", "tab"}

Digits == {"0", "1", "2", "3", "4", "5", "6", "7", "8", "9"}

(* Faulty variant: is_op forgets an operation that get_op knows.           *)
OpsButPower == {"+", "-", "*", "/", "="}

Ops == {"+", "-", "*", "/", "=", "^"}

Signs == {"(", ")", "{", "}", ";", ",", ">", "<", "ge", "le", "equiv", "ne"}

(* Faulty variant: a new line does not end a name.                         *)
ReservedButNewline ==
  {"(", ")", ";", ",", "tab", "space", "+", "-", "*", "/", "^", "=",
   ">", "<", "ge", "le", "equiv", "ne", "#"}

(* is_reserved: what ends a name; a brace and the final zero do not.       *)
Reserved ==
  {"(", ")", ";", ",", "newline", "tab", "space", "+", "-", "*", "/", "^", "=",
   ">", "<", "ge", "le", "equiv", "ne", "#"}

Symbols ==
  Blanks \cup Digits \cup Ops \cup Signs \cup Reserved \cup {"."} \cup Letters \cup DOMAIN Kwds

ASSUME FrontendConstants ==
  /\ \A f \in Files : f.text \in Seq(Symbols) /\ f.bytes \in Nat /\ f.bytes >= Len(f.text)
  /\ MAX_TOKEN_SIZE \in Nat

VARIABLES file, locale,
          symbs,      \* what has been read of the text
          pos,        \* where symbs stands, from 1
          data,       \* tokens->data
          capacity,
          frd_error,
          fstage      \* open, scan, tokens, refused, overrun

fvars == <<file, locale, symbs, pos, data, capacity, frd_error, fstage>>

-------------------------------------------------------------------------------
(* The buffer is filled up with zeros to the length of the file in bytes.  *)
At(i) == IF i <= Len(symbs) THEN symbs[i] ELSE "nul"

(* Where the symbols of S that begin at i come to their end.               *)
Ends(i, S) ==
  {e \in i..(Len(symbs) + 1) : At(e) \notin S /\ \A k \in i..(e - 1) : symbs[k] \in S}

Cur == At(pos)

Scanning == fstage = "scan" /\ pos <= file.bytes

SignType(sign) ==
  CASE sign = "(" -> "OPEN_BR"   [] sign = ")" -> "CLOSE_BR"
    [] sign = "{" -> "OPEN_CBR"  [] sign = "}" -> "CLOSE_CBR"
    [] sign = ";" -> "SEMICOLON" [] sign = "," -> "COMMA"
    [] sign = ">" -> "ABOVE"     [] sign = "<" -> "BELOW"
    [] sign = "ge" -> "ABOVE_EQUAL" [] sign = "le" -> "BELOW_EQUAL"
    [] sign = "equiv" -> "EQUAL" [] sign = "ne" -> "NOT_EQUAL"

GetOp(op) ==
  CASE op = "+" -> "ADD" [] op = "-" -> "SUB" [] op = "*" -> "MUL"
    [] op = "/" -> "DIV" [] op = "^" -> "POW" [] op = "=" -> "ASS"
    [] OTHER -> "UNKNOWN"

(* Faulty variant: a bracket makes a function's name of a keyword.         *)
IdTokenFuncFirst(name, is_func) ==
  IF is_func THEN Token("FUNC", name)
  ELSE IF Len(name) = 1 /\ name[1] \in DOMAIN Kwds THEN Kwds[name[1]] ELSE Token("VAR", name)

(* add_id, which looks for the keywords first.                             *)
IdToken(name, is_func) ==
  IF Len(name) = 1 /\ name[1] \in DOMAIN Kwds THEN Kwds[name[1]]
  ELSE IF is_func THEN Token("FUNC", name) ELSE Token("VAR", name)

(* Faulty variant: the buffer grows one token too late.                    *)
GrownLate(size) == IF size > capacity THEN 2 * capacity ELSE capacity

Grown(size) == IF size >= capacity THEN 2 * capacity ELSE capacity

AddToken(token) ==
  /\ capacity' = Grown(Len(data))
  /\ data' = Append(data, token)

Refuse(error) ==
  /\ frd_error' = error
  /\ fstage' = "refused"
  /\ UNCHANGED <<file, locale, symbs, pos, data, capacity>>

GoOnAt(i) ==
  /\ pos' = i
  /\ UNCHANGED <<file, locale, symbs, frd_error, fstage>>
-------------------------------------------------------------------------------
FInit ==
  /\ file \in Files
  /\ locale \in Locales
  /\ symbs = << >>
  /\ pos = 1
  /\ data = << >> /\ capacity = STARTER_TOKENS_AMOUNT
  /\ frd_error = "FRD_ALL_GOOD"
  /\ fstage = "open"

(* The first symbol that fgetwc cannot decode ends the text, as if it were *)
(* the end of the file.                                                    *)
GetSymbs ==
  /\ fstage = "open"
  /\ \E n \in 0..Len(file.text) :
       /\ \A i \in 1..n : file.text[i] \in locale.decodes
       /\ n < Len(file.text) => file.text[n + 1] \notin locale.decodes
       /\ symbs' = SubSeq(file.text, 1, n)
  /\ fstage' = "scan"
  /\ UNCHANGED <<file, locale, pos, data, capacity, frd_error>>

CannotOpen ==
  /\ fstage = "open"
  /\ Refuse("FRD_UNABLE_TO_OPEN_FILE")

SkipBlank ==
  /\ Scanning /\ Cur \in Blanks
  /\ GoOnAt(pos + 1)
  /\ UNCHANGED <<data, capacity>>

(* swscanf reads a number as the locale writes it; skip_nums goes behind   *)
(* all digits and points.                                                  *)
AddNum ==
  /\ Scanning /\ Cur \in Digits
  /\ \E int \in Ends(pos, Digits) :
       \E frac \in IF At(int) = locale.radix THEN Ends(int + 1, Digits) ELSE {int} :
         AddToken(Token("NUM", SubSeq(symbs, pos, IF frac = int + 1 THEN int - 1 ELSE frac - 1)))
  /\ \E e \in Ends(pos, Digits \cup {"."}) : GoOnAt(e)

ProcessSym ==
  /\ Scanning /\ Cur \in Signs
  /\ AddToken(Token(SignType(Cur), 0))
  /\ GoOnAt(pos + 1)

(* Faulty variant: the end of the text does not end a comment.             *)
BehindNewline == {e + 1 : e \in Ends(pos, Symbols \ {"newline"})}

(* Behind the newline that ends a comment or, without one, the zero that   *)
(* ends the text.                                                          *)
BehindComment ==
  LET ends == Ends(pos, Symbols \ {"newline"})
  IN  IF ends = {} THEN {file.bytes + 2} ELSE {e + 1 : e \in ends}

SkipComment ==
  /\ Scanning /\ Cur = "#"
  /\ \E e \in BehindComment : GoOnAt(e)
  /\ UNCHANGED <<data, capacity>>

ProcessOp ==
  /\ Scanning /\ Cur \in Ops
  /\ IF GetOp(Cur) = "UNKNOWN" THEN Refuse("FRD_UKNOWN_OP")
     ELSE AddToken(Token("OP", GetOp(Cur))) /\ GoOnAt(pos + 1)

AtId == Scanning /\ Cur \notin Blanks \cup Digits \cup Signs \cup {"#"} \cup Ops

(* get_token refuses a name that begins with what ends one.                *)
GoodFirst == Cur \notin Reserved \cup Digits

(* The reserved symbol behind the name; there must be room for its letters *)
(* and a zero.                                                             *)
IdEnds == {e \in Ends(pos + 1, Symbols \ Reserved) : e - pos < MAX_TOKEN_SIZE}

ProcessId ==
  /\ AtId
  /\ IF GoodFirst
     THEN \E e \in IdEnds :
            /\ AddToken(IdToken(SubSeq(symbs, pos, e - 1), At(e) = "("))
            /\ GoOnAt(e)
     ELSE Refuse("FRD_INVALID_VAR_SYMBOL")

OverrunId ==
  /\ AtId /\ GoodFirst /\ IdEnds = {}
  /\ fstage' = "overrun"
  /\ UNCHANGED <<file, locale, symbs, pos, data, capacity, frd_error>>

(* init_tokens, get_symbs, process_id and a growing add_token allocate.    *)
AllocationFails ==
  /\ \/ fstage = "open" \/ AtId
     \/ /\ fstage = "scan" /\ Len(data) >= capacity
        /\ pos > file.bytes \/ Cur \notin Blanks \cup {"#"}
  /\ Refuse("FRD_UNABLE_TO_ALLOCATE")

Tokenized ==
  /\ fstage = "scan" /\ pos > file.bytes
  /\ AddToken(Token("END", 0))
  /\ fstage' = "tokens"
  /\ UNCHANGED <<file, locale, symbs, pos, frd_error>>

FNext ==
  \/ GetSymbs \/ CannotOpen \/ SkipBlank \/ AddNum \/ ProcessSym \/ SkipComment \/ ProcessOp
  \/ ProcessId \/ OverrunId \/ AllocationFails \/ Tokenized

(* One thread, which goes on until tokenize() returns.                     *)
FSpec == FInit /\ [][FNext]_fvars /\ WF_fvars(FNext)
-------------------------------------------------------------------------------
TokenType ==
  {Kwds[k] : k \in DOMAIN Kwds} \cup {Token(SignType(s), 0) : s \in Signs}
    \cup {Token("OP", GetOp(s)) : s \in Ops} \cup {Token("END", 0)}
    \cup [type : {"NUM", "VAR", "FUNC"}, value : Seq(Symbols)]

(* The type invariant.  The tokens fit their buffer, and the text is never *)
(* left by more than the zero behind it.                                   *)
FrontendTypeOK ==
  /\ symbs \in Seq(Symbols) /\ Len(symbs) <= file.bytes
  /\ pos \in 1..(file.bytes + 2)
  /\ data \in Seq(TokenType)
  /\ capacity \in Nat /\ Len(data) <= capacity
  /\ fstage \in {"open", "scan", "tokens", "refused", "overrun"}

(* is_blank, is_number, process_sym, is_op and is_reserved sort symbols    *)
(* each by a list of its own: whatever the text, no symbol falls between   *)
(* the lists, and only the system can make tokenize() fail.                *)
OnlySystemErrors ==
  frd_error \in {"FRD_ALL_GOOD", "FRD_UNABLE_TO_OPEN_FILE", "FRD_UNABLE_TO_ALLOCATE"}

(* A text that is read to its end and ends in a newline never leads the    *)
(* tokenizer out of it: only a name that is too long does.                 *)
EndedTextsAreSafe ==
  fstage = "overrun" =>
    \/ symbs # file.text
    \/ symbs[Len(symbs)] # "newline"
    \/ Ends(pos + 1, Symbols \ Reserved) # {}

(* However a program is laid out, with its tokens next to each other or    *)
(* with blanks and comments between them, the tokens are those that were   *)
(* written; but where the decimal sign is a comma, not the numbers of      *)
(* arguments that are not set off from it.                                 *)
Fraction ==
  \E i \in 1..(Len(file.text) - 2) :
    /\ file.text[i] \in Digits /\ file.text[i + 2] \in Digits
    /\ file.text[i + 1] = locale.radix

TokensAsWritten ==
  fstage = "tokens" /\ symbs = file.text /\ ~Fraction =>
    \A written \in file.tokens : data = Append(written, Token("END", 0))

(* What "laid out" means, for texts and tokens of any number.  Between two *)
(* positions there are only blanks and comments with their newlines:       *)
InComment(text, i, k) ==
  \E h \in i..k : text[h] = "#" /\ \A m \in h..(k - 1) : text[m] # "newline"

Gap(text, i, j) ==
  /\ i <= j
  /\ \A k \in i..(j - 1) : text[k] \in Blanks \/ InComment(text, i, k)
  /\ \A k \in i..(j - 1) : text[k] = "#" => \E m \in k..(j - 1) : text[m] = "newline"

(* A name is over where something else begins that may stand behind one.   *)
Delimiters == (Blanks \ {"nul"}) \cup Ops \cup (Signs \ {"{", "}"}) \cup {"#"}

(* A token is written from one position up to another: a sign, an          *)
(* operation, a number of digits, or a word up to what ends names, which   *)
(* is a function's name if that is a bracket and if it is no keyword.      *)
Word(word, behind) ==
  IF Len(word) = 1 /\ word[1] \in DOMAIN Kwds THEN Kwds[word[1]]
  ELSE Token(IF behind = "(" THEN "FUNC" ELSE "VAR", word)

Stands(text, i, j, token) ==
  LET behind == IF j <= Len(text) THEN text[j] ELSE "nul"
  IN  /\ i \in 1..Len(text) /\ j \in (i + 1)..(Len(text) + 1)
      /\ \/ text[i] \in Signs /\ j = i + 1 /\ token = Token(SignType(text[i]), 0)
         \/ text[i] \in Ops /\ j = i + 1 /\ token = Token("OP", GetOp(text[i]))
         \/ /\ \A k \in i..(j - 1) : text[k] \in Digits
            /\ behind \notin Digits \cup {"."}
            /\ token = Token("NUM", SubSeq(text, i, j - 1))
         \/ /\ text[i] \notin Blanks \cup Digits \cup Signs \cup Ops \cup {"#"}
            /\ \A k \in (i + 1)..(j - 1) : text[k] \notin Delimiters
            /\ behind \in Delimiters
            /\ token = Word(SubSeq(text, i, j - 1), behind)

(* The k-th token is written from at[k] up to to[k].                       *)
LaidOut(text, tokens, at, to) ==
  LET n == Len(tokens)
  IN  /\ \A k \in 1..n : Stands(text, at[k], to[k], tokens[k])
      /\ \A k \in 0..n : Gap(text, IF k = 0 THEN 1 ELSE to[k],
                               IF k = n THEN Len(text) + 1 ELSE at[k + 1])

(* Every text is either tokenized or given up; no comment, number or name  *)
(* keeps the tokenizer where it is.                                        *)
TokenizerStops == <>(fstage \in {"tokens", "refused", "overrun"})
===============================================================================
