---------------------------- MODULE FrontendProofs ----------------------------
(***************************************************************************)
(* Theorems about the tokenizer, for any texts, locales and letters.       *)
(***************************************************************************)
EXTENDS Frontend, SequenceLemmas, TLAPS

(* The inductive invariant: the types, and that the text is one of those   *)
(* whose length in bytes is known.                                         *)
FInv ==
  /\ file \in Files
  /\ symbs \in Seq(Symbols) /\ Len(symbs) <= file.bytes
  /\ pos \in 1..(file.bytes + 2)
  /\ data \in Seq(TokenType)
  /\ capacity \in Nat /\ Len(data) <= capacity /\ capacity > 0
  /\ fstage \in {"open", "scan", "tokens", "refused", "overrun"}

LEMMA FInvTypes ==
  ASSUME FInv
  PROVE  FrontendTypeOK
BY DEF FInv, FrontendTypeOK

LEMMA FileTypes ==
  ASSUME file \in Files
  PROVE  file.text \in Seq(Symbols) /\ file.bytes \in Nat /\ file.bytes >= Len(file.text)
BY FrontendConstants

(* What stands at the current position is a symbol.                        *)
LEMMA CurIsSymbol ==
  ASSUME FInv
  PROVE  Cur \in Symbols
<1>1. pos \in Nat \ {0} /\ symbs \in Seq(Symbols)
  BY FileTypes DEF FInv
<1>2. "nul" \in Symbols
  BY DEF Symbols, Blanks
<1> QED BY <1>1, <1>2 DEF Cur, At

LEMMA EndsInside ==
  ASSUME NEW i \in Nat \ {0}, NEW S, NEW e \in Ends(i, S), symbs \in Seq(Symbols)
  PROVE  e \in Nat /\ i <= e /\ e <= Len(symbs) + 1 /\ At(e) \notin S
BY DEF Ends

(* A new token finds room in the buffer, which is doubled when it is full. *)
LEMMA TokenFits ==
  ASSUME FInv, NEW token \in TokenType, AddToken(token)
  PROVE  data' \in Seq(TokenType) /\ capacity' \in Nat /\ Len(data') <= capacity' /\ capacity' > 0
<1>1. data \in Seq(TokenType) /\ capacity \in Nat /\ Len(data) <= capacity /\ capacity > 0
  BY DEF FInv
<1>2. data' = Append(data, token) /\ capacity' = Grown(Len(data))
  BY DEF AddToken
<1>3. data' \in Seq(TokenType) /\ Len(data') = Len(data) + 1
  BY <1>1, <1>2
<1> QED BY <1>1, <1>2, <1>3 DEF Grown

LEMMA WordTokens ==
  ASSUME NEW t \in {"NUM", "VAR", "FUNC"}, NEW w \in Seq(Symbols)
  PROVE  Token(t, w) \in TokenType
BY DEF Token, TokenType

LEMMA IdTokens ==
  ASSUME NEW name \in Seq(Symbols), NEW is_func \in BOOLEAN
  PROVE  IdToken(name, is_func) \in TokenType
<1>1. CASE Len(name) = 1 /\ name[1] \in DOMAIN Kwds
  BY <1>1 DEF IdToken, TokenType
<1>2. CASE ~ (Len(name) = 1 /\ name[1] \in DOMAIN Kwds)
  <2>1. Token("FUNC", name) \in TokenType /\ Token("VAR", name) \in TokenType
    BY WordTokens
  <2> QED BY <1>2, <2>1 DEF IdToken
<1> QED BY <1>1, <1>2

(* The part of the text between two positions.                             *)
LEMMA PartOfText ==
  ASSUME symbs \in Seq(Symbols), NEW i \in Nat \ {0}, NEW j \in Nat, j <= Len(symbs)
  PROVE  SubSeq(symbs, i, j) \in Seq(Symbols)
BY SubSeqProperties

(* get_op knows every operation that is_op sends it.                       *)
LEMMA OpsAreKnown ==
  ASSUME NEW s \in Ops
  PROVE  GetOp(s) # "UNKNOWN"
BY DEF Ops, GetOp

(* The lists of symbols fit together: what no other test has taken is a    *)
(* letter that may begin a name.                                           *)
LEMMA GoodFirsts == AtId => GoodFirst
BY DEF AtId, GoodFirst, Reserved, Digits, Blanks, Signs, Ops

-------------------------------------------------------------------------------
(* Reading on from a position inside the text keeps the invariant.         *)
LEMMA GoOn ==
  ASSUME FInv, NEW i \in Nat \ {0}, i <= file.bytes + 2, GoOnAt(i),
         data' \in Seq(TokenType), capacity' \in Nat, Len(data') <= capacity', capacity' > 0
  PROVE  FInv'
BY FileTypes DEF FInv, GoOnAt

(* Where a token of symbols of S can end.                                  *)
LEMMA EndsInText ==
  ASSUME FInv, NEW i \in Nat \ {0}, NEW S, NEW e \in Ends(i, S)
  PROVE  e \in Nat \ {0} /\ i <= e /\ e <= Len(symbs) + 1 /\ e <= file.bytes + 1
BY EndsInside, FileTypes, LenProperties DEF FInv

LEMMA ScanningFacts ==
  ASSUME FInv, Scanning
  PROVE  pos \in Nat \ {0} /\ pos <= file.bytes /\ file.bytes \in Nat
BY FileTypes DEF FInv, Scanning

(* A blank moves the tokenizer on by one, which may be the zero behind the *)
(* text.                                                                   *)
LEMMA BlankStep ==
  ASSUME FInv, SkipBlank
  PROVE  FInv' /\ pos' > pos
<1>1. pos \in Nat \ {0} /\ pos <= file.bytes /\ file.bytes \in Nat
  BY ScanningFacts DEF SkipBlank
<1>2. GoOnAt(pos + 1) /\ UNCHANGED <<data, capacity>>
  BY DEF SkipBlank
<1>3. FInv'
  BY <1>1, <1>2, GoOn DEF FInv
<1> QED BY <1>1, <1>2, <1>3 DEF GoOnAt

(* A number ends behind its first digit.                                   *)
LEMMA NumStep ==
  ASSUME FInv, AddNum
  PROVE  FInv' /\ pos' > pos
<1>1. pos \in Nat \ {0} /\ pos <= file.bytes /\ file.bytes \in Nat /\ Cur \in Digits
  BY ScanningFacts DEF AddNum
<1>0. PICK int \in Ends(pos, Digits) :
        \E frac \in IF At(int) = locale.radix THEN Ends(int + 1, Digits) ELSE {int} :
          AddToken(Token("NUM", SubSeq(symbs, pos, IF frac = int + 1 THEN int - 1 ELSE frac - 1)))
  BY DEF AddNum
<1>2. PICK frac \in IF At(int) = locale.radix THEN Ends(int + 1, Digits) ELSE {int} :
        AddToken(Token("NUM", SubSeq(symbs, pos, IF frac = int + 1 THEN int - 1 ELSE frac - 1)))
  BY <1>0
<1>3. PICK e \in Ends(pos, Digits \cup {"."}) : GoOnAt(e)
  BY DEF AddNum
<1>4. symbs \in Seq(Symbols) /\ Len(symbs) \in Nat
  BY LenProperties DEF FInv
<1>5. int \in Nat \ {0} /\ int <= Len(symbs) + 1
  BY <1>1, EndsInText
<1>6. frac \in Nat \ {0} /\ frac <= Len(symbs) + 1
  BY <1>5, EndsInText
<1>7. (IF frac = int + 1 THEN int - 1 ELSE frac - 1) \in Nat
      /\ (IF frac = int + 1 THEN int - 1 ELSE frac - 1) <= Len(symbs)
  BY <1>4, <1>5, <1>6
<1>8. SubSeq(symbs, pos, IF frac = int + 1 THEN int - 1 ELSE frac - 1) \in Seq(Symbols)
  BY <1>1, <1>4, <1>7, PartOfText
<1>9. Token("NUM", SubSeq(symbs, pos, IF frac = int + 1 THEN int - 1 ELSE frac - 1)) \in TokenType
  BY <1>8, WordTokens
<1>10. data' \in Seq(TokenType) /\ capacity' \in Nat /\ Len(data') <= capacity' /\ capacity' > 0
  BY <1>2, <1>9, TokenFits
<1>11. e \in Nat \ {0} /\ pos <= e /\ e <= file.bytes + 1
  BY <1>1, EndsInText
<1>12. e # pos
  BY <1>1 DEF Ends, Cur
<1>13. FInv'
  BY <1>1, <1>3, <1>10, <1>11, GoOn
<1> QED BY <1>1, <1>3, <1>11, <1>12, <1>13 DEF GoOnAt

LEMMA SignStep ==
  ASSUME FInv, ProcessSym
  PROVE  FInv' /\ pos' > pos
<1>1. pos \in Nat \ {0} /\ pos <= file.bytes /\ file.bytes \in Nat
  BY ScanningFacts DEF ProcessSym
<1>2. Token(SignType(Cur), 0) \in TokenType
  BY DEF ProcessSym, TokenType
<1>3. GoOnAt(pos + 1) /\ AddToken(Token(SignType(Cur), 0))
  BY DEF ProcessSym
<1>4. FInv'
  BY <1>1, <1>2, <1>3, TokenFits, GoOn
<1> QED BY <1>1, <1>3, <1>4 DEF GoOnAt

(* A comment ends behind its newline, or behind the zero after the text.   *)
LEMMA CommentStep ==
  ASSUME FInv, SkipComment
  PROVE  FInv' /\ pos' > pos
<1>1. pos \in Nat \ {0} /\ pos <= file.bytes /\ file.bytes \in Nat
  BY ScanningFacts DEF SkipComment
<1>2. PICK e \in BehindComment : GoOnAt(e)
  BY DEF SkipComment
<1>3. UNCHANGED <<data, capacity>>
  BY DEF SkipComment
<1>4. e \in Nat \ {0} /\ e > pos /\ e <= file.bytes + 2
  <2>1. CASE Ends(pos, Symbols \ {"newline"}) = {}
    BY <1>1, <1>2, <2>1 DEF BehindComment
  <2>2. CASE Ends(pos, Symbols \ {"newline"}) # {}
    <3>1. PICK n \in Ends(pos, Symbols \ {"newline"}) : e = n + 1
      BY <1>2, <2>2 DEF BehindComment
    <3>2. n \in Nat \ {0} /\ pos <= n /\ n <= file.bytes + 1
      BY <1>1, EndsInText
    <3> QED BY <1>1, <3>1, <3>2
  <2> QED BY <2>1, <2>2
<1>5. FInv'
  BY <1>1, <1>2, <1>3, <1>4, GoOn DEF FInv
<1> QED BY <1>2, <1>4, <1>5 DEF GoOnAt

LEMMA OpStep ==
  ASSUME FInv, ProcessOp
  PROVE  FInv' /\ pos' > pos
<1>1. pos \in Nat \ {0} /\ pos <= file.bytes /\ file.bytes \in Nat /\ Cur \in Ops
  BY ScanningFacts DEF ProcessOp
<1>2. AddToken(Token("OP", GetOp(Cur))) /\ GoOnAt(pos + 1)
  BY <1>1, OpsAreKnown DEF ProcessOp
<1>3. Token("OP", GetOp(Cur)) \in TokenType
  BY <1>1 DEF TokenType
<1>4. FInv'
  BY <1>1, <1>2, <1>3, TokenFits, GoOn
<1> QED BY <1>1, <1>2, <1>4 DEF GoOnAt

(* A name is at least one symbol long.                                     *)
LEMMA IdStep ==
  ASSUME FInv, ProcessId
  PROVE  FInv' /\ pos' > pos
<1>1. AtId /\ GoodFirst
  BY GoodFirsts DEF ProcessId
<1>2. pos \in Nat \ {0} /\ pos <= file.bytes /\ file.bytes \in Nat
  BY <1>1, ScanningFacts DEF AtId
<1>3. PICK e \in IdEnds :
        /\ AddToken(IdToken(SubSeq(symbs, pos, e - 1), At(e) = "("))
        /\ GoOnAt(e)
  BY <1>1 DEF ProcessId
<1>4. symbs \in Seq(Symbols) /\ Len(symbs) \in Nat
  BY LenProperties DEF FInv
<1>5. e \in Ends(pos + 1, Symbols \ Reserved)
  BY <1>3 DEF IdEnds
<1>6. e \in Nat \ {0} /\ pos + 1 <= e /\ e <= Len(symbs) + 1 /\ e <= file.bytes + 1
  BY <1>2, <1>5, EndsInText
<1>7. e - 1 \in Nat /\ e - 1 <= Len(symbs)
  BY <1>4, <1>6
<1>8. SubSeq(symbs, pos, e - 1) \in Seq(Symbols)
  BY <1>2, <1>4, <1>7, PartOfText
<1>9. IdToken(SubSeq(symbs, pos, e - 1), At(e) = "(") \in TokenType
  BY <1>8, IdTokens
<1>10. data' \in Seq(TokenType) /\ capacity' \in Nat /\ Len(data') <= capacity' /\ capacity' > 0
  BY <1>3, <1>9, TokenFits
<1>11. FInv'
  BY <1>2, <1>3, <1>6, <1>10, GoOn
<1> QED BY <1>2, <1>3, <1>6, <1>11 DEF GoOnAt

(* The text that is read is no longer than the file.                       *)
LEMMA GetStep ==
  ASSUME FInv, GetSymbs
  PROVE  FInv'
<1>1. PICK n \in 0..Len(file.text) : symbs' = SubSeq(file.text, 1, n)
  BY DEF GetSymbs
<1>2. file.text \in Seq(Symbols) /\ file.bytes \in Nat /\ file.bytes >= Len(file.text)
      /\ Len(file.text) \in Nat
  BY FileTypes, LenProperties DEF FInv
<1>3. n \in Nat /\ n <= Len(file.text)
  BY <1>2
<1>4. symbs' \in Seq(Symbols) /\ Len(symbs') = n
  BY <1>1, <1>2, <1>3, PrefixOfSeq
<1> QED BY <1>2, <1>3, <1>4 DEF FInv, GetSymbs

LEMMA RefuseStep ==
  ASSUME FInv, NEW error, Refuse(error)
  PROVE  FInv' /\ fstage' = "refused" /\ frd_error' = error
BY DEF FInv, Refuse

LEMMA EndStep ==
  ASSUME FInv, Tokenized
  PROVE  FInv'
<1>1. Token("END", 0) \in TokenType
  BY DEF TokenType
<1>2. data' \in Seq(TokenType) /\ capacity' \in Nat /\ Len(data') <= capacity' /\ capacity' > 0
  BY <1>1, TokenFits DEF Tokenized
<1> QED BY <1>2 DEF FInv, Tokenized

(* Each action keeps the invariant, and those that stay in the scanning    *)
(* loop move the tokenizer on.                                             *)
LEMMA FStep ==
  ASSUME FInv, [FNext]_fvars
  PROVE  FInv'
<1>1. CASE GetSymbs
  BY <1>1, GetStep
<1>2. CASE CannotOpen
  BY <1>2, RefuseStep DEF CannotOpen
<1>3. CASE SkipBlank
  BY <1>3, BlankStep
<1>4. CASE AddNum
  BY <1>4, NumStep
<1>5. CASE ProcessSym
  BY <1>5, SignStep
<1>6. CASE SkipComment
  BY <1>6, CommentStep
<1>7. CASE ProcessOp
  BY <1>7, OpStep
<1>8. CASE ProcessId
  BY <1>8, IdStep
<1>9. CASE OverrunId
  BY <1>9 DEF FInv, OverrunId
<1>10. CASE AllocationFails
  BY <1>10, RefuseStep DEF AllocationFails
<1>11. CASE Tokenized
  BY <1>11, EndStep
<1>12. CASE UNCHANGED fvars
  BY <1>12 DEF FInv, fvars
<1> QED
  BY <1>1, <1>2, <1>3, <1>4, <1>5, <1>6, <1>7, <1>8, <1>9, <1>10, <1>11, <1>12 DEF FNext

LEMMA FStart == FInit => FInv
BY FileTypes DEF FInit, FInv, STARTER_TOKENS_AMOUNT

(* The tokens always fit their buffer and the tokenizer never stands       *)
(* farther than one symbol behind the zero that ends the text.             *)
THEOREM TokensFit == FSpec => []FrontendTypeOK
<1>1. FInv => FrontendTypeOK
  BY FInvTypes
<1>2. FInv /\ [FNext]_fvars => FInv'
  BY FStep
<1> QED
  BY FStart, <1>1, <1>2, PTL DEF FSpec

(* Each round of the scanning loop of tokenize() moves it on: there is no  *)
(* text that keeps it where it is.                                         *)
Advances == fstage = "scan" /\ fstage' = "scan" => pos' > pos

LEMMA RoundAdvances ==
  ASSUME FInv, FNext
  PROVE  Advances
<1>1. CASE GetSymbs
  BY <1>1 DEF GetSymbs, Advances
<1>2. CASE CannotOpen \/ AllocationFails
  BY <1>2, RefuseStep DEF CannotOpen, AllocationFails, Advances
<1>3. CASE SkipBlank \/ AddNum \/ ProcessSym \/ SkipComment \/ ProcessOp \/ ProcessId
  BY <1>3, BlankStep, NumStep, SignStep, CommentStep, OpStep, IdStep DEF Advances
<1>4. CASE OverrunId \/ Tokenized
  BY <1>4 DEF OverrunId, Tokenized, Advances
<1> QED
  BY <1>1, <1>2, <1>3, <1>4 DEF FNext

THEOREM LoopAdvances == FSpec => [][Advances]_fvars
<1>1. FInv /\ [FNext]_fvars => FInv'
  BY FStep
<1>2. FInv /\ [FNext]_fvars => [Advances]_fvars
  BY RoundAdvances
<1> QED
  BY FStart, <1>1, <1>2, PTL DEF FSpec

-------------------------------------------------------------------------------
LEMMA ErrorStep ==
  ASSUME OnlySystemErrors, [FNext]_fvars
  PROVE  OnlySystemErrors'
<1>1. CASE GetSymbs
  BY <1>1 DEF GetSymbs, OnlySystemErrors
<1>2. CASE CannotOpen \/ AllocationFails
  BY <1>2 DEF CannotOpen, AllocationFails, Refuse, OnlySystemErrors
<1>3. CASE SkipBlank \/ AddNum \/ ProcessSym \/ SkipComment
  BY <1>3 DEF SkipBlank, AddNum, ProcessSym, SkipComment, GoOnAt, OnlySystemErrors
<1>4. CASE ProcessOp
  <2>1. GetOp(Cur) # "UNKNOWN"
    BY <1>4, OpsAreKnown DEF ProcessOp
  <2> QED BY <1>4, <2>1 DEF ProcessOp, GoOnAt, OnlySystemErrors
<1>5. CASE ProcessId
  <2>1. GoodFirst
    BY <1>5, GoodFirsts DEF ProcessId
  <2> QED BY <1>5, <2>1 DEF ProcessId, GoOnAt, OnlySystemErrors
<1>6. CASE OverrunId \/ Tokenized
  BY <1>6 DEF OverrunId, Tokenized, OnlySystemErrors
<1>7. CASE UNCHANGED fvars
  BY <1>7 DEF fvars, OnlySystemErrors
<1> QED
  BY <1>1, <1>2, <1>3, <1>4, <1>5, <1>6, <1>7 DEF FNext

(* Whatever its letters are, no text is refused: the tests of tokenize()   *)
(* take every symbol between them, and each knows what it has been given.  *)
THEOREM NoTextIsRefused == FSpec => []OnlySystemErrors
<1>1. FInit => OnlySystemErrors
  BY DEF FInit, OnlySystemErrors
<1> QED
  BY <1>1, ErrorStep, PTL DEF FSpec

-------------------------------------------------------------------------------
(* Ahead of the newline that ends a text, every name comes to an end.      *)
LEMMA NameEnds ==
  ASSUME FInv, AtId, symbs[Len(symbs)] = "newline"
  PROVE  Ends(pos + 1, Symbols \ Reserved) # {}
<1>1. symbs \in Seq(Symbols) /\ Len(symbs) \in Nat /\ pos \in Nat \ {0}
  BY ScanningFacts, LenProperties DEF FInv, AtId
<1>2. Cur \notin Blanks
  BY DEF AtId
<1>3. pos <= Len(symbs)
  BY <1>1, <1>2 DEF Cur, At, Blanks
<1>4. pos # Len(symbs)
  BY <1>2, <1>3 DEF Cur, At, Blanks
<1> DEFINE S == {i \in (pos + 1)..Len(symbs) : symbs[i] \in Reserved}
<1>5. "newline" \in Reserved
  BY DEF Reserved
<1>6. Len(symbs) \in S
  BY <1>1, <1>3, <1>4, <1>5
<1>7. S \subseteq Nat /\ S # {}
  BY <1>1, <1>6
<1> HIDE DEF S
<1>8. PICK e \in S : \A i \in S : e <= i
  BY <1>7, LeastNatural
<1>9. e \in (pos + 1)..(Len(symbs) + 1) /\ e <= Len(symbs) /\ symbs[e] \in Reserved
  BY <1>1, <1>8 DEF S
<1>10. At(e) \notin Symbols \ Reserved
  BY <1>9 DEF At
<1>11. ASSUME NEW k \in (pos + 1)..(e - 1)
       PROVE  symbs[k] \in Symbols \ Reserved
  <2>1. k \in 1..Len(symbs) /\ k < e
    BY <1>1, <1>9
  <2>2. symbs[k] \in Symbols
    BY <1>1, <2>1, ElementOfSeq
  <2>3. k \notin S
    BY <1>1, <1>8, <1>9, <2>1
  <2> QED BY <1>1, <2>1, <2>2, <2>3 DEF S
<1>12. e \in Ends(pos + 1, Symbols \ Reserved)
  BY <1>9, <1>10, <1>11 DEF Ends
<1> QED BY <1>12

LEMMA SafeStep ==
  ASSUME FInv, EndedTextsAreSafe, [FNext]_fvars
  PROVE  EndedTextsAreSafe'
<1>1. CASE OverrunId
  <2>1. UNCHANGED <<file, symbs, pos>>
    BY <1>1 DEF OverrunId
  <2>2. symbs[Len(symbs)] = "newline" => Ends(pos + 1, Symbols \ Reserved) # {}
    BY <1>1, NameEnds DEF OverrunId
  <2>3. Ends(pos + 1, Symbols \ Reserved)' = Ends(pos + 1, Symbols \ Reserved)
    BY <2>1 DEF Ends, At
  <2> QED BY <2>1, <2>2, <2>3 DEF EndedTextsAreSafe
<1>2. CASE UNCHANGED fvars
  <2>1. Ends(pos + 1, Symbols \ Reserved)' = Ends(pos + 1, Symbols \ Reserved)
    BY <1>2 DEF Ends, At, fvars
  <2> QED BY <1>2, <2>1 DEF EndedTextsAreSafe, fvars
<1>3. CASE FNext /\ ~OverrunId
  <2>1. fstage' # "overrun"
    <3>1. CASE GetSymbs \/ Tokenized
      BY <3>1 DEF GetSymbs, Tokenized
    <3>2. CASE CannotOpen \/ AllocationFails
      BY <3>2 DEF CannotOpen, AllocationFails, Refuse
    <3>3. CASE SkipBlank \/ AddNum \/ ProcessSym \/ SkipComment \/ ProcessOp
      BY <3>3 DEF SkipBlank, AddNum, ProcessSym, SkipComment, ProcessOp, Scanning, GoOnAt, Refuse
    <3>4. CASE ProcessId
      BY <3>4 DEF ProcessId, AtId, Scanning, GoOnAt, Refuse
    <3> QED BY <1>3, <3>1, <3>2, <3>3, <3>4 DEF FNext
  <2> QED BY <2>1 DEF EndedTextsAreSafe
<1> QED BY <1>1, <1>2, <1>3

(* A text that ends in a newline, and is read to its end, keeps get_token  *)
(* inside it.                                                              *)
THEOREM EndedTextsStayInside == FSpec => []EndedTextsAreSafe
<1>1. FInit => EndedTextsAreSafe
  BY DEF FInit, EndedTextsAreSafe
<1>2. FInv /\ [FNext]_fvars => FInv'
  BY FStep
<1>3. FInv /\ EndedTextsAreSafe /\ [FNext]_fvars => EndedTextsAreSafe'
  BY SafeStep
<1> QED
  BY FStart, <1>1, <1>2, <1>3, PTL DEF FSpec

-------------------------------------------------------------------------------
(* Whoever writes a text sees its symbols as one list; each sort goes to   *)
(* one action only.                                                        *)
LEMMA SortsAreApart ==
  ASSUME NEW s
  PROVE  /\ s \in Blanks => s \notin Digits \cup Signs \cup Ops \cup {"#"}
         /\ s \in Digits => s \notin Blanks \cup Signs \cup Ops \cup {"#"}
         /\ s \in Signs => s \notin Blanks \cup Digits \cup Ops \cup {"#"}
         /\ s \in Ops => s \notin Blanks \cup Digits \cup Signs \cup {"#"}
         /\ s = "#" => s \notin Blanks \cup Digits \cup Signs \cup Ops
         /\ s \in Digits \cup Blanks => s # "."
BY DEF Blanks, Digits, Signs, Ops

(* What runs on from i comes to an end in one place.                       *)
LEMMA OneEnd ==
  ASSUME symbs \in Seq(Symbols), NEW i \in Nat \ {0}, NEW S, NEW e \in Ends(i, S),
         NEW j \in Nat, i <= j, j <= Len(symbs) + 1,
         \A k \in i..(j - 1) : symbs[k] \in S, At(j) \notin S
  PROVE  e = j
<1>1. e \in Nat /\ i <= e /\ e <= Len(symbs) + 1 /\ At(e) \notin S /\ Len(symbs) \in Nat
  BY EndsInside, LenProperties
<1>2. \A k \in i..(e - 1) : symbs[k] \in S
  BY DEF Ends
<1>3. CASE e < j
  <2>1. e \in i..(j - 1) /\ e <= Len(symbs)
    BY <1>1, <1>3
  <2> QED BY <1>1, <2>1 DEF At
<1>4. CASE j < e
  <2>1. j \in i..(e - 1) /\ j <= Len(symbs)
    BY <1>1, <1>4
  <2> QED BY <1>2, <2>1 DEF At
<1> QED BY <1>1, <1>3, <1>4

(* Between two tokens there is a blank or a comment, and behind it the     *)
(* rest of what is between them.                                           *)
LEMMA GapBegins ==
  ASSUME NEW text, NEW i \in Nat, NEW j \in Nat, i < j, Gap(text, i, j)
  PROVE  text[i] \in Blanks \/ text[i] = "#"
<1>1. i \in i..(j - 1)
  OBVIOUS
<1>2. CASE InComment(text, i, i)
  <2>1. PICK h \in i..i : text[h] = "#"
    BY <1>2 DEF InComment
  <2> QED BY <2>1
<1> QED BY <1>1, <1>2 DEF Gap

LEMMA GapBehindBlank ==
  ASSUME NEW text, NEW i \in Nat, NEW j \in Nat, i < j, Gap(text, i, j), text[i] # "#"
  PROVE  Gap(text, i + 1, j)
<1>1. ASSUME NEW k \in (i + 1)..(j - 1)
      PROVE  text[k] \in Blanks \/ InComment(text, i + 1, k)
  <2>1. k \in i..(j - 1)
    BY <1>1
  <2>2. CASE InComment(text, i, k)
    <3>1. PICK h \in i..k : text[h] = "#" /\ \A m \in h..(k - 1) : text[m] # "newline"
      BY <2>2 DEF InComment
    <3>2. h \in (i + 1)..k
      BY <3>1
    <3> QED BY <3>1, <3>2 DEF InComment
  <2> QED BY <2>1, <2>2 DEF Gap
<1>2. ASSUME NEW k \in (i + 1)..(j - 1), text[k] = "#"
      PROVE  \E m \in k..(j - 1) : text[m] = "newline"
  <2>1. k \in i..(j - 1)
    BY <1>2
  <2> QED BY <1>2, <2>1 DEF Gap
<1> QED BY <1>1, <1>2 DEF Gap

LEMMA GapBehindComment ==
  ASSUME NEW text, NEW i \in Nat, NEW j \in Nat, i < j, Gap(text, i, j),
         NEW e \in i..(j - 1), text[e] = "newline"
  PROVE  Gap(text, e + 1, j)
<1>1. ASSUME NEW k \in (e + 1)..(j - 1)
      PROVE  text[k] \in Blanks \/ InComment(text, e + 1, k)
  <2>1. k \in i..(j - 1)
    BY <1>1
  <2>2. CASE InComment(text, i, k)
    <3>1. PICK h \in i..k : text[h] = "#" /\ \A m \in h..(k - 1) : text[m] # "newline"
      BY <2>2 DEF InComment
    <3>2. ~ (e \in h..(k - 1))
      BY <3>1
    <3>3. h \in (e + 1)..k
      BY <1>1, <3>1, <3>2
    <3> QED BY <3>1, <3>3 DEF InComment
  <2> QED BY <2>1, <2>2 DEF Gap
<1>2. ASSUME NEW k \in (e + 1)..(j - 1), text[k] = "#"
      PROVE  \E m \in k..(j - 1) : text[m] = "newline"
  <2>1. k \in i..(j - 1)
    BY <1>2
  <2> QED BY <1>2, <2>1 DEF Gap
<1> QED BY <1>1, <1>2 DEF Gap

(* The place where the tokenizer is: k tokens of w have been read, and it  *)
(* is between the k-th and the next, or behind the text.                   *)
UpTo(w, at, k) == IF k = Len(w) THEN Len(file.text) + 1 ELSE at[k + 1]

HasRead(w, at, k) ==
  /\ data = SubSeq(w, 1, k)
  /\ \/ Gap(file.text, pos, UpTo(w, at, k))
     \/ k = Len(w) /\ pos > Len(file.text)

Reads(w, at) == \E k \in 0..Len(w) : HasRead(w, at, k)

Laid(w, at, to) ==
  symbs = file.text /\ w \in Seq(TokenType) /\ LaidOut(file.text, w, at, to)

LEMMA Places ==
  ASSUME FInv, NEW w, NEW at, NEW to, Laid(w, at, to), NEW k \in 0..Len(w)
  PROVE  /\ Len(w) \in Nat /\ Len(symbs) \in Nat
         /\ UpTo(w, at, k) \in Nat \ {0} /\ UpTo(w, at, k) <= Len(symbs) + 1
         /\ k < Len(w) => /\ Stands(symbs, UpTo(w, at, k), to[k + 1], w[k + 1])
                          /\ UpTo(w, at, k) <= Len(symbs)
                          /\ to[k + 1] \in Nat
                          /\ Gap(symbs, to[k + 1], UpTo(w, at, k + 1))
<1>1. symbs \in Seq(Symbols) /\ Len(symbs) \in Nat /\ Len(w) \in Nat /\ symbs = file.text
      /\ LaidOut(symbs, w, at, to)
  BY LenProperties DEF FInv, Laid
<1>2. CASE k = Len(w)
  BY <1>1, <1>2 DEF UpTo
<1>3. CASE k < Len(w)
  <2>1. k + 1 \in 1..Len(w) /\ k + 1 \in 0..Len(w) /\ k + 1 # 0 /\ k # Len(w) /\ k \in Nat
    BY <1>1, <1>3
  <2>2. Stands(symbs, at[k + 1], to[k + 1], w[k + 1])
    BY <1>1, <2>1 DEF LaidOut
  <2>3. UpTo(w, at, k) = at[k + 1]
    BY <2>1 DEF UpTo
  <2>4. at[k + 1] \in 1..Len(symbs) /\ to[k + 1] \in (at[k + 1] + 1)..(Len(symbs) + 1)
    BY <2>2 DEF Stands
  <2>5. Gap(symbs, IF k + 1 = 0 THEN 1 ELSE to[k + 1],
                   IF k + 1 = Len(w) THEN Len(symbs) + 1 ELSE at[k + 1 + 1])
    BY <1>1, <2>1 DEF LaidOut
  <2>6. Gap(symbs, to[k + 1], UpTo(w, at, k + 1))
    BY <1>1, <2>1, <2>5 DEF UpTo
  <2> QED BY <1>1, <2>2, <2>3, <2>4, <2>6
<1> QED BY <1>1, <1>2, <1>3

(* What the tokenizer can be looking at.                                   *)
BetweenTokens(w, at, k) ==
  /\ pos < UpTo(w, at, k) /\ Gap(symbs, pos, UpTo(w, at, k))
  /\ Cur = symbs[pos] /\ Cur \in Blanks \cup {"#"}

AtToken(w, to, k) ==
  k < Len(w) /\ Cur = symbs[pos] /\ Stands(symbs, pos, to[k + 1], w[k + 1])

BehindText(w, k) ==
  k = Len(w) /\ pos > Len(symbs) /\ Cur = "nul"

LEMMA Whereabouts ==
  ASSUME FInv, NEW w, NEW at, NEW to, Laid(w, at, to), NEW k \in 0..Len(w), HasRead(w, at, k)
  PROVE  BetweenTokens(w, at, k) \/ AtToken(w, to, k) \/ BehindText(w, k)
<1>1. /\ pos \in Nat \ {0} /\ symbs = file.text /\ Len(symbs) \in Nat /\ Len(w) \in Nat
      /\ UpTo(w, at, k) \in Nat \ {0} /\ UpTo(w, at, k) <= Len(symbs) + 1
      /\ k < Len(w) => /\ Stands(symbs, UpTo(w, at, k), to[k + 1], w[k + 1])
                       /\ UpTo(w, at, k) <= Len(symbs)
  BY Places, FileTypes DEF FInv, Laid
<1>2. CASE k = Len(w) /\ pos > Len(symbs)
  BY <1>1, <1>2 DEF BehindText, Cur, At
<1>3. CASE Gap(symbs, pos, UpTo(w, at, k)) /\ pos <= Len(symbs)
  <2>1. Cur = symbs[pos] /\ pos <= UpTo(w, at, k)
    BY <1>1, <1>3 DEF Cur, At, Gap
  <2>2. CASE pos < UpTo(w, at, k)
    <3>1. Cur \in Blanks \cup {"#"}
      BY <1>1, <1>3, <2>1, <2>2, GapBegins
    <3> QED BY <1>3, <2>1, <2>2, <3>1 DEF BetweenTokens
  <2>3. CASE pos = UpTo(w, at, k)
    <3>1. k < Len(w)
      BY <1>1, <1>3, <2>3 DEF UpTo
    <3> QED BY <1>1, <2>1, <2>3, <3>1 DEF AtToken
  <2> QED BY <1>1, <2>1, <2>2, <2>3
<1>4. CASE Gap(symbs, pos, UpTo(w, at, k)) /\ pos > Len(symbs)
  <2>1. pos <= UpTo(w, at, k)
    BY <1>1, <1>4 DEF Gap
  <2>2. k = Len(w)
    BY <1>1, <1>4, <2>1
  <2> QED BY <1>2, <1>4, <2>2
<1> QED BY <1>1, <1>2, <1>3, <1>4 DEF HasRead

(* Behind a token the tokenizer has read one more.                         *)
LEMMA OneMore ==
  ASSUME NEW S, NEW w \in Seq(S), NEW k \in Nat, k < Len(w)
  PROVE  SubSeq(w, 1, k + 1) = Append(SubSeq(w, 1, k), w[k + 1])
<1>1. k + 1 \in 1..Len(w) /\ Len(w) \in Nat
  BY LenProperties
<1>2. w[k + 1] \in S
  BY <1>1, ElementOfSeq
<1>3. w = [w EXCEPT ![k + 1] = w[k + 1]]
  OBVIOUS
<1> QED BY <1>2, <1>3, StoredIsAppended

LEMMA TokenRead ==
  ASSUME FInv, NEW w, NEW at, NEW to, Laid(w, at, to), NEW k \in 0..Len(w), k < Len(w),
         data = SubSeq(w, 1, k), AddToken(w[k + 1]), GoOnAt(to[k + 1])
  PROVE  Reads(w, at)'
<1>1. Len(w) \in Nat /\ symbs = file.text /\ w \in Seq(TokenType)
      /\ Gap(symbs, to[k + 1], UpTo(w, at, k + 1))
  BY Places DEF Laid
<1>2. data' = SubSeq(w, 1, k + 1)
  BY <1>1, OneMore DEF AddToken
<1>3. file' = file /\ pos' = to[k + 1]
  BY DEF GoOnAt
<1>4. k + 1 \in 0..Len(w)
  BY <1>1
<1>5. UpTo(w, at, k + 1)' = UpTo(w, at, k + 1)
  BY <1>3 DEF UpTo
<1>6. HasRead(w, at, k + 1)'
  BY <1>1, <1>2, <1>3, <1>5 DEF HasRead
<1> QED BY <1>4, <1>6 DEF Reads

LEMMA NothingRead ==
  ASSUME FInv, NEW w, NEW at, NEW k \in 0..Len(w), NEW i, data = SubSeq(w, 1, k),
         UNCHANGED data, GoOnAt(i),
         \/ Gap(file.text, i, UpTo(w, at, k))
         \/ k = Len(w) /\ i > Len(file.text)
  PROVE  Reads(w, at)'
<1>1. file' = file /\ pos' = i
  BY DEF GoOnAt
<1>2. UpTo(w, at, k)' = UpTo(w, at, k)
  BY <1>1 DEF UpTo
<1>3. HasRead(w, at, k)'
  BY <1>1, <1>2 DEF HasRead
<1> QED BY <1>3 DEF Reads

(* Each action of the scanning loop reads what is there: a blank or a      *)
(* comment between tokens, or the next token.                              *)
LEMMA BlankRead ==
  ASSUME FInv, NEW w, NEW at, NEW to, Laid(w, at, to), Reads(w, at), SkipBlank
  PROVE  Reads(w, at)'
<1>1. PICK k \in 0..Len(w) : HasRead(w, at, k)
  BY DEF Reads
<1>2. /\ pos \in Nat \ {0} /\ Len(symbs) \in Nat /\ symbs = file.text /\ UpTo(w, at, k) \in Nat
      /\ data = SubSeq(w, 1, k)
  BY <1>1, ScanningFacts, Places DEF SkipBlank, Laid, HasRead
<1>3. Cur \in Blanks /\ Cur \notin Digits \cup Signs \cup Ops \cup {"#"}
      /\ GoOnAt(pos + 1) /\ UNCHANGED data
  BY SortsAreApart DEF SkipBlank
<1>4. CASE BetweenTokens(w, at, k)
  <2>1. Gap(symbs, pos + 1, UpTo(w, at, k))
    BY <1>2, <1>3, <1>4, GapBehindBlank DEF BetweenTokens
  <2> QED BY <1>2, <1>3, <2>1, NothingRead
<1>5. CASE BehindText(w, k)
  <2>1. k = Len(w) /\ pos + 1 > Len(symbs)
    BY <1>2, <1>5 DEF BehindText
  <2> QED BY <1>2, <1>3, <2>1, NothingRead
<1>6. ~AtToken(w, to, k)
  <2>1. SUFFICES ASSUME AtToken(w, to, k) PROVE FALSE
    OBVIOUS
  <2>2. Cur = symbs[pos] /\ Stands(symbs, pos, to[k + 1], w[k + 1])
    BY <2>1 DEF AtToken
  <2>3. pos \in pos..(to[k + 1] - 1)
    BY <1>2, <2>2 DEF Stands
  <2> QED BY <1>3, <2>2, <2>3 DEF Stands
<1> QED BY <1>1, <1>4, <1>5, <1>6, Whereabouts

LEMMA CommentRead ==
  ASSUME FInv, NEW w, NEW at, NEW to, Laid(w, at, to), Reads(w, at), SkipComment
  PROVE  Reads(w, at)'
<1>1. PICK k \in 0..Len(w) : HasRead(w, at, k)
  BY DEF Reads
<1>2. /\ pos \in Nat \ {0} /\ Len(symbs) \in Nat /\ symbs = file.text /\ UpTo(w, at, k) \in Nat
      /\ UpTo(w, at, k) <= Len(symbs) + 1
      /\ data = SubSeq(w, 1, k) /\ symbs \in Seq(Symbols)
  BY <1>1, ScanningFacts, Places DEF SkipComment, Laid, HasRead, FInv
<1>3. Cur = "#" /\ Cur \notin Blanks \cup Digits \cup Signs \cup Ops /\ UNCHANGED data
  BY SortsAreApart DEF SkipComment
<1>4. PICK e \in BehindComment : GoOnAt(e)
  BY DEF SkipComment
<1>5. CASE BetweenTokens(w, at, k)
  <2>1. pos < UpTo(w, at, k) /\ Gap(symbs, pos, UpTo(w, at, k)) /\ symbs[pos] = "#"
    BY <1>3, <1>5 DEF BetweenTokens
  <2>2. pos \in pos..(UpTo(w, at, k) - 1)
    BY <1>2, <2>1
  <2> DEFINE N == {m \in pos..(UpTo(w, at, k) - 1) : symbs[m] = "newline"}
  <2>3. N # {} /\ N \subseteq Nat
    <3>1. PICK m \in pos..(UpTo(w, at, k) - 1) : symbs[m] = "newline"
      BY <2>1, <2>2 DEF Gap
    <3> QED BY <1>2, <3>1
  <2> HIDE DEF N
  <2>4. PICK m \in N : \A i \in N : m <= i
    BY <2>3, LeastNatural
  <2>5. m \in pos..(UpTo(w, at, k) - 1) /\ symbs[m] = "newline" /\ m \in Nat /\ pos <= m /\ m <= Len(symbs)
    BY <1>2, <2>4 DEF N
  <2>6. ASSUME NEW i \in pos..(m - 1)
        PROVE  symbs[i] \in Symbols \ {"newline"}
    <3>1. i \in pos..(UpTo(w, at, k) - 1) /\ i \in 1..Len(symbs) /\ i < m
      BY <1>2, <2>5
    <3>2. symbs[i] \in Symbols
      BY <1>2, <3>1, ElementOfSeq
    <3>3. i \notin N
      BY <1>2, <2>4, <2>5, <3>1
    <3> QED BY <3>1, <3>2, <3>3 DEF N
  <2>7. At(m) \notin Symbols \ {"newline"}
    BY <2>5 DEF At
  <2>8. m \in Ends(pos, Symbols \ {"newline"})
    BY <1>2, <2>5, <2>6, <2>7 DEF Ends
  <2>9. ASSUME NEW n \in Ends(pos, Symbols \ {"newline"})
        PROVE  n = m
    <3>1. m <= Len(symbs) + 1
      BY <1>2, <2>5
    <3> QED BY <1>2, <2>5, <2>6, <2>7, <3>1, OneEnd
  <2>10. e = m + 1
    BY <1>4, <2>8, <2>9 DEF BehindComment
  <2>11. Gap(symbs, e, UpTo(w, at, k))
    BY <1>2, <2>1, <2>5, <2>10, GapBehindComment
  <2> QED BY <1>2, <1>3, <1>4, <2>11, NothingRead
<1>6. ~AtToken(w, to, k)
  <2>1. SUFFICES ASSUME AtToken(w, to, k) PROVE FALSE
    OBVIOUS
  <2>2. Cur = symbs[pos] /\ Stands(symbs, pos, to[k + 1], w[k + 1])
    BY <2>1 DEF AtToken
  <2>3. pos \in pos..(to[k + 1] - 1)
    BY <1>2, <2>2 DEF Stands
  <2> QED BY <1>3, <2>2, <2>3 DEF Stands
<1>7. ~BehindText(w, k)
  BY <1>3 DEF BehindText
<1> QED BY <1>1, <1>5, <1>6, <1>7, Whereabouts

(* What is neither blank nor a comment belongs to the next token.          *)
LEMMA ThereIsAToken ==
  ASSUME FInv, NEW w, NEW at, NEW to, Laid(w, at, to), Reads(w, at),
         Cur \notin Blanks \cup {"#"}
  PROVE  \E k \in 0..Len(w) :
           /\ data = SubSeq(w, 1, k) /\ k < Len(w) /\ Cur = symbs[pos]
           /\ Stands(symbs, pos, to[k + 1], w[k + 1])
<1>1. PICK k \in 0..Len(w) : HasRead(w, at, k)
  BY DEF Reads
<1>2. ~BetweenTokens(w, at, k)
  BY DEF BetweenTokens
<1>3. ~BehindText(w, k)
  BY DEF BehindText, Blanks
<1> QED BY <1>1, <1>2, <1>3, Whereabouts DEF AtToken, HasRead

LEMMA SignRead ==
  ASSUME FInv, NEW w, NEW at, NEW to, Laid(w, at, to), Reads(w, at), ProcessSym
  PROVE  Reads(w, at)'
<1>1. Cur \in Signs /\ Cur \notin Blanks \cup Digits \cup Ops \cup {"#"}
      /\ AddToken(Token(SignType(Cur), 0)) /\ GoOnAt(pos + 1)
  BY SortsAreApart DEF ProcessSym
<1>2. PICK k \in 0..Len(w) :
        /\ data = SubSeq(w, 1, k) /\ k < Len(w) /\ Cur = symbs[pos]
        /\ Stands(symbs, pos, to[k + 1], w[k + 1])
  BY <1>1, ThereIsAToken
<1>3. pos \in pos..(to[k + 1] - 1)
  BY <1>2, ScanningFacts DEF Stands, ProcessSym
<1>4. to[k + 1] = pos + 1 /\ w[k + 1] = Token(SignType(Cur), 0)
  BY <1>1, <1>2, <1>3 DEF Stands
<1> QED BY <1>1, <1>2, <1>4, TokenRead

LEMMA OpRead ==
  ASSUME FInv, NEW w, NEW at, NEW to, Laid(w, at, to), Reads(w, at), ProcessOp
  PROVE  Reads(w, at)'
<1>1. Cur \in Ops /\ Cur \notin Blanks \cup Digits \cup Signs \cup {"#"}
      /\ AddToken(Token("OP", GetOp(Cur))) /\ GoOnAt(pos + 1)
  BY SortsAreApart, OpsAreKnown DEF ProcessOp
<1>2. PICK k \in 0..Len(w) :
        /\ data = SubSeq(w, 1, k) /\ k < Len(w) /\ Cur = symbs[pos]
        /\ Stands(symbs, pos, to[k + 1], w[k + 1])
  BY <1>1, ThereIsAToken
<1>3. pos \in pos..(to[k + 1] - 1)
  BY <1>2, ScanningFacts DEF Stands, ProcessOp
<1>4. to[k + 1] = pos + 1 /\ w[k + 1] = Token("OP", GetOp(Cur))
  BY <1>1, <1>2, <1>3 DEF Stands
<1> QED BY <1>1, <1>2, <1>4, TokenRead

(* A number ends where its digits do, as it has no fraction.               *)
LEMMA NumRead ==
  ASSUME FInv, NEW w, NEW at, NEW to, Laid(w, at, to), Reads(w, at), ~Fraction, AddNum
  PROVE  Reads(w, at)'
<1>1. Cur \in Digits /\ Cur \notin Blanks \cup Signs \cup Ops \cup {"#"}
  BY SortsAreApart DEF AddNum
<1>2. PICK k \in 0..Len(w) :
        /\ data = SubSeq(w, 1, k) /\ k < Len(w) /\ Cur = symbs[pos]
        /\ Stands(symbs, pos, to[k + 1], w[k + 1])
  BY <1>1, ThereIsAToken
<1> DEFINE j == to[k + 1]
<1>3. /\ pos \in Nat \ {0} /\ Len(symbs) \in Nat /\ symbs \in Seq(Symbols) /\ symbs = file.text
      /\ j \in Nat /\ pos < j /\ j <= Len(symbs) + 1
  <2>1. pos \in Nat \ {0} /\ Len(symbs) \in Nat /\ symbs \in Seq(Symbols) /\ symbs = file.text
    BY ScanningFacts, LenProperties DEF AddNum, FInv, Laid
  <2>2. j \in (pos + 1)..(Len(symbs) + 1)
    BY <1>2 DEF Stands
  <2> QED BY <2>1, <2>2
<1>4. /\ \A i \in pos..(j - 1) : symbs[i] \in Digits
      /\ At(j) \notin Digits \cup {"."}
      /\ w[k + 1] = Token("NUM", SubSeq(symbs, pos, j - 1))
  BY <1>1, <1>2 DEF Stands, At
<1>5. PICK e \in Ends(pos, Digits \cup {"."}) : GoOnAt(e)
  BY DEF AddNum
<1>6. e = j
  <2> DEFINE S == Digits \cup {"."}
  <2>1. (\A i \in pos..(j - 1) : symbs[i] \in S) /\ At(j) \notin S /\ e \in Ends(pos, S)
    BY <1>4, <1>5
  <2>2. pos <= j
    BY <1>3
  <2> HIDE DEF S, j
  <2> QED BY <1>3, <2>1, <2>2, OneEnd
<1>7. PICK int \in Ends(pos, Digits) :
        \E frac \in IF At(int) = locale.radix THEN Ends(int + 1, Digits) ELSE {int} :
          AddToken(Token("NUM", SubSeq(symbs, pos, IF frac = int + 1 THEN int - 1 ELSE frac - 1)))
  BY DEF AddNum
<1>8. PICK frac \in IF At(int) = locale.radix THEN Ends(int + 1, Digits) ELSE {int} :
        AddToken(Token("NUM", SubSeq(symbs, pos, IF frac = int + 1 THEN int - 1 ELSE frac - 1)))
  BY <1>7
<1>9. int = j
  BY <1>3, <1>4, OneEnd
<1> HIDE DEF j
<1>10. (IF frac = int + 1 THEN int - 1 ELSE frac - 1) = j - 1
  <2>1. CASE At(j) # locale.radix
    <3>1. frac = j
      BY <1>8, <1>9, <2>1
    <3> QED BY <1>3, <1>9, <3>1
  <2>2. CASE At(j) = locale.radix /\ frac = j + 1
    BY <1>9, <2>2
  <2>3. CASE At(j) = locale.radix /\ frac # j + 1
    <3>1. frac \in Ends(j + 1, Digits)
      BY <1>8, <1>9, <2>3
    <3>2. frac \in Nat /\ j + 1 <= frac /\ frac <= Len(symbs) + 1
      BY <1>3, <3>1, EndsInside
    <3>3. j + 1 \in (j + 1)..(frac - 1) /\ j - 1 \in pos..(j - 1) /\ j - 1 \in 1..(Len(symbs) - 2)
      BY <1>3, <2>3, <3>2
    <3>4. symbs[j + 1] \in Digits
      BY <3>1, <3>3 DEF Ends
    <3>5. symbs[j - 1] \in Digits
      BY <1>4, <3>3 DEF j
    <3>6. symbs[j] = locale.radix
      BY <1>3, <2>3, <3>2 DEF At
    <3>7. j - 1 + 2 = j + 1 /\ j - 1 + 1 = j
      BY <1>3
    <3>8. Fraction
      BY <1>3, <3>3, <3>4, <3>5, <3>6, <3>7 DEF Fraction
    <3> QED BY <3>8
  <2> QED BY <2>1, <2>2, <2>3
<1>11. AddToken(w[k + 1])
  BY <1>4, <1>8, <1>10 DEF j
<1> QED BY <1>2, <1>5, <1>6, <1>11, TokenRead DEF j

(* is_reserved knows all that ends a name.                                 *)
LEMMA NamesEndThere == Delimiters = Reserved
<1>1. Delimiters \subseteq Reserved
  BY DEF Delimiters, Reserved, Blanks, Ops, Signs
<1>2. Reserved \subseteq Delimiters
  BY DEF Delimiters, Reserved, Blanks, Ops, Signs
<1> QED BY <1>1, <1>2

LEMMA IdRead ==
  ASSUME FInv, NEW w, NEW at, NEW to, Laid(w, at, to), Reads(w, at), ProcessId
  PROVE  Reads(w, at)'
<1>1. AtId /\ GoodFirst /\ Cur \notin Blanks \cup Digits \cup Signs \cup Ops \cup {"#"}
  BY GoodFirsts DEF ProcessId, AtId
<1>2. PICK k \in 0..Len(w) :
        /\ data = SubSeq(w, 1, k) /\ k < Len(w) /\ Cur = symbs[pos]
        /\ Stands(symbs, pos, to[k + 1], w[k + 1])
  BY <1>1, ThereIsAToken
<1> DEFINE j == to[k + 1]
<1>3. /\ pos \in Nat \ {0} /\ Len(symbs) \in Nat /\ symbs \in Seq(Symbols)
      /\ j \in Nat /\ pos < j /\ j <= Len(symbs) + 1
  <2>1. pos \in Nat \ {0} /\ Len(symbs) \in Nat /\ symbs \in Seq(Symbols)
    BY <1>1, ScanningFacts, LenProperties DEF AtId, FInv
  <2>2. j \in (pos + 1)..(Len(symbs) + 1)
    BY <1>2 DEF Stands
  <2> QED BY <2>1, <2>2
<1>4. pos \in pos..(j - 1)
  BY <1>3
<1>5. /\ \A i \in (pos + 1)..(j - 1) : symbs[i] \notin Reserved
      /\ At(j) \in Reserved
      /\ w[k + 1] = Word(SubSeq(symbs, pos, j - 1), At(j))
  BY <1>1, <1>2, <1>4, NamesEndThere DEF Stands, At
<1>6. \A i \in (pos + 1)..(j - 1) : symbs[i] \in Symbols \ Reserved
  BY <1>3, <1>5, ElementOfSeq
<1>7. PICK e \in IdEnds :
        /\ AddToken(IdToken(SubSeq(symbs, pos, e - 1), At(e) = "("))
        /\ GoOnAt(e)
  BY <1>1 DEF ProcessId
<1>8. e = j
  <2> DEFINE S == Symbols \ Reserved
  <2>1. e \in Ends(pos + 1, S) /\ (\A i \in (pos + 1)..(j - 1) : symbs[i] \in S) /\ At(j) \notin S
    BY <1>5, <1>6, <1>7 DEF IdEnds
  <2>2. pos + 1 \in Nat \ {0} /\ pos + 1 <= j
    BY <1>3
  <2> HIDE DEF S, j
  <2> QED BY <1>3, <2>1, <2>2, OneEnd
<1>9. IdToken(SubSeq(symbs, pos, e - 1), At(e) = "(") = w[k + 1]
  BY <1>5, <1>8 DEF IdToken, Word
<1> QED BY <1>2, <1>7, <1>8, <1>9, TokenRead

(* The inductive invariant: in whatever way the text is laid out, what has *)
(* been read of it is what is written there.                               *)
AsWritten ==
  /\ fstage = "open" => data = << >> /\ pos = 1
  /\ fstage = "scan" /\ symbs = file.text /\ ~Fraction =>
       \A w, at, to : Laid(w, at, to) => Reads(w, at)
  /\ fstage = "tokens" /\ symbs = file.text /\ ~Fraction =>
       \A w, at, to : Laid(w, at, to) => data = Append(w, Token("END", 0))

LEMMA NothingReadYet ==
  ASSUME FInv, AsWritten, GetSymbs
  PROVE  AsWritten'
<1>1. data' = << >> /\ pos' = 1 /\ fstage' = "scan" /\ file' = file
  BY DEF AsWritten, GetSymbs
<1>2. ASSUME NEW w, NEW at, NEW to, Laid(w, at, to)'
      PROVE  Reads(w, at)'
  <2>1. w \in Seq(TokenType) /\ LaidOut(file.text, w, at, to) /\ Len(w) \in Nat
    BY <1>1, <1>2, LenProperties DEF Laid
  <2>2. 0 \in 0..Len(w) /\ SubSeq(w, 1, 0) = << >>
    BY <2>1
  <2>3. Gap(file.text, IF 0 = 0 THEN 1 ELSE to[0],
                       IF 0 = Len(w) THEN Len(file.text) + 1 ELSE at[0 + 1])
    BY <2>1, <2>2 DEF LaidOut
  <2>4. UpTo(w, at, 0)' = IF 0 = Len(w) THEN Len(file.text) + 1 ELSE at[0 + 1]
    BY <1>1 DEF UpTo
  <2>5. HasRead(w, at, 0)'
    BY <1>1, <2>2, <2>3, <2>4 DEF HasRead
  <2> QED BY <2>2, <2>5 DEF Reads
<1> QED BY <1>1, <1>2 DEF AsWritten

LEMMA RoundReads ==
  ASSUME FInv, AsWritten,
         SkipBlank \/ AddNum \/ ProcessSym \/ SkipComment \/ ProcessOp \/ ProcessId
  PROVE  AsWritten'
<1>1. Scanning
  BY DEF SkipBlank, AddNum, ProcessSym, SkipComment, ProcessOp, ProcessId, AtId
<1>2. UNCHANGED <<file, locale, symbs, fstage>>
  BY OpsAreKnown, GoodFirsts
     DEF SkipBlank, AddNum, ProcessSym, SkipComment, ProcessOp, ProcessId, GoOnAt
<1>3. SUFFICES ASSUME symbs = file.text, ~Fraction
               PROVE  \A w, at, to : Laid(w, at, to) => Reads(w, at)'
  <2>1. Fraction' = Fraction
    BY <1>2 DEF Fraction
  <2>2. \A w, at, to : Laid(w, at, to)' = Laid(w, at, to)
    BY <1>2 DEF Laid
  <2>3. fstage' = "scan"
    BY <1>1, <1>2 DEF Scanning
  <2> QED BY <1>2, <2>1, <2>2, <2>3 DEF AsWritten
<1>4. TAKE w, at, to
<1>5. HAVE Laid(w, at, to)
<1>6. Reads(w, at)
  BY <1>1, <1>3, <1>5 DEF AsWritten, Scanning
<1>7. CASE SkipBlank
  BY <1>5, <1>6, <1>7, BlankRead
<1>8. CASE AddNum
  BY <1>3, <1>5, <1>6, <1>8, NumRead
<1>9. CASE ProcessSym
  BY <1>5, <1>6, <1>9, SignRead
<1>10. CASE SkipComment
  BY <1>5, <1>6, <1>10, CommentRead
<1>11. CASE ProcessOp
  BY <1>5, <1>6, <1>11, OpRead
<1>12. CASE ProcessId
  BY <1>5, <1>6, <1>12, IdRead
<1> QED BY <1>7, <1>8, <1>9, <1>10, <1>11, <1>12

(* At the end of the file all tokens have been read: no other place is     *)
(* behind the text.                                                        *)
LEMMA AllRead ==
  ASSUME FInv, AsWritten, Tokenized
  PROVE  AsWritten'
<1>1. fstage = "scan" /\ pos > file.bytes /\ fstage' = "tokens" /\ UNCHANGED <<file, locale, symbs>>
      /\ data' = Append(data, Token("END", 0))
  BY DEF Tokenized, AddToken
<1>2. Fraction' = Fraction
  BY <1>1 DEF Fraction
<1>3. ASSUME symbs = file.text, ~Fraction, NEW w, NEW at, NEW to, Laid(w, at, to)
      PROVE  data = w
  <2>1. PICK k \in 0..Len(w) : HasRead(w, at, k)
    BY <1>1, <1>3 DEF AsWritten, Reads
  <2>2. /\ w \in Seq(TokenType) /\ Len(w) \in Nat /\ UpTo(w, at, k) \in Nat
        /\ k < Len(w) => UpTo(w, at, k) <= Len(symbs)
    BY <1>3, Places DEF Laid
  <2>3. file.bytes \in Nat /\ Len(symbs) <= file.bytes /\ pos \in Nat /\ Len(symbs) \in Nat
    BY FileTypes, LenProperties DEF FInv
  <2>4. k = Len(w)
    <3>1. SUFFICES ASSUME k < Len(w) PROVE FALSE
      BY <2>2
    <3>2. Gap(file.text, pos, UpTo(w, at, k))
      BY <2>1, <2>2, <3>1 DEF HasRead
    <3>3. pos <= UpTo(w, at, k)
      BY <3>2 DEF Gap
    <3> QED BY <1>1, <2>2, <2>3, <3>1, <3>3
  <2>5. SubSeq(w, 1, Len(w)) = w
    BY <2>2, PrefixOfSeq, SeqEqual
  <2> QED BY <2>1, <2>4, <2>5 DEF HasRead
<1>4. \A w, at, to : Laid(w, at, to)' = Laid(w, at, to)
  BY <1>1 DEF Laid
<1> QED BY <1>1, <1>2, <1>3, <1>4 DEF AsWritten

LEMMA WrittenStep ==
  ASSUME FInv, AsWritten, [FNext]_fvars
  PROVE  AsWritten'
<1>1. CASE CannotOpen \/ AllocationFails \/ OverrunId
  BY <1>1 DEF CannotOpen, AllocationFails, OverrunId, Refuse, AsWritten
<1>2. CASE UNCHANGED fvars
  <2>1. Fraction' = Fraction
    BY <1>2 DEF Fraction, fvars
  <2>2. \A w, at, to : Laid(w, at, to)' = Laid(w, at, to)
    BY <1>2 DEF Laid, fvars
  <2>3. \A w, at, k : HasRead(w, at, k)' = HasRead(w, at, k)
    BY <1>2 DEF HasRead, UpTo, fvars
  <2>4. \A w, at : Reads(w, at)' = Reads(w, at)
    BY <2>3 DEF Reads
  <2> QED BY <1>2, <2>1, <2>2, <2>4 DEF AsWritten, fvars
<1> QED
  BY <1>1, <1>2, NothingReadYet, RoundReads, AllRead DEF FNext

(* Texts of any length, with any tokens, however they are laid out: if the *)
(* tokenizer comes to an end, it has read the tokens that were written.    *)
THEOREM TextsAreReadAsWritten ==
  ASSUME \A f \in Files : \A w \in f.tokens :
           w \in Seq(TokenType) /\ \E at, to : LaidOut(f.text, w, at, to)
  PROVE  FSpec => []TokensAsWritten
<1>1. FInit => AsWritten
  BY DEF FInit, AsWritten
<1>2. FInv /\ [FNext]_fvars => FInv'
  BY FStep
<1>3. FInv /\ AsWritten /\ [FNext]_fvars => AsWritten'
  BY WrittenStep
<1>4. FInv /\ AsWritten => TokensAsWritten
  <2>1. SUFFICES ASSUME FInv, AsWritten, fstage = "tokens", symbs = file.text, ~Fraction,
                        NEW written \in file.tokens
                 PROVE  data = Append(written, Token("END", 0))
    BY DEF TokensAsWritten
  <2>2. PICK at, to : LaidOut(file.text, written, at, to)
    BY <2>1 DEF FInv
  <2>3. Laid(written, at, to)
    BY <2>1, <2>2 DEF FInv, Laid
  <2> QED BY <2>1, <2>3 DEF AsWritten
<1> QED
  BY FStart, <1>1, <1>2, <1>3, <1>4, PTL DEF FSpec
===============================================================================
