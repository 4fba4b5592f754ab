---------------------------- MODULE MCSourceReader ----------------------------
(***************************************************************************)
(* Texts for TLC: all sequences of three tokens, laid out in several ways; *)
(* all skeletons of up to four words, and longer ones of some of them; and *)
(* all texts of up to four symbols, whatever they mean.                    *)
(***************************************************************************)
EXTENDS SourceReader, SequencesExt

MCLetters == {"x"}

Wide == DOMAIN Kwds \cup {"ge", "le", "equiv", "ne"}

(* What one wide letter adds to the length in bytes stands for all.        *)
File(text, tokens, words) ==
  [text |-> text, bytes |-> Len(text) + Len(SelectSeq(text, LAMBDA s : s \in Wide)),
   tokens |-> tokens, words |-> words]

Pieces ==
  { [token |-> Token("VAR", << "x" >>), text |-> << "x" >>],
    [token |-> Token("FUNC", << "x", "x" >>), text |-> << "x", "x" >>],
    [token |-> Token("NUM", << "1", "2" >>), text |-> << "1", "2" >>],
    [token |-> Token("MAIN", 0), text |-> << "rais" >>],
    [token |-> Token("STD_FUNC", "PUTEXPR"), text |-> << "misalnyaz" >>],
    [token |-> Token("OP", "SUB"), text |-> << "-" >>],
    [token |-> Token("OPEN_BR", 0), text |-> << "(" >>],
    [token |-> Token("CLOSE_CBR", 0), text |-> << "}" >>],
    [token |-> Token("COMMA", 0), text |-> << "," >>],
    [token |-> Token("EQUAL", 0), text |-> << "equiv" >>] }

IsWord(w) == w.token.type \in {"VAR", "FUNC", "MAIN", "STD_FUNC"}

(* A name is ended by a blank before a name, a number or a brace, and is a *)
(* function's exactly if a bracket follows it.                             *)
MustTouch(a, b) == a.token.type = "FUNC" /\ b.token.type = "OPEN_BR"

MustPart(a, b) ==
  \/ IsWord(a) /\ (IsWord(b) \/ b.token.type \in {"NUM", "CLOSE_CBR"})
  \/ a.token.type = "NUM" /\ b.token.type = "NUM"
  \/ a.token.type = "VAR" /\ b.token.type = "OPEN_BR"

Gaps == {<< >>, << "space" >>, << "#", "x", "1", "newline" >>}

Between(a, b, gap) ==
  IF MustTouch(a, b) THEN << >>
  ELSE IF gap = << >> /\ MustPart(a, b) THEN << "newline" >> ELSE gap

Piece(ws, gap, i) ==
  ws[i].text \o (IF i < Len(ws) THEN Between(ws[i], ws[i + 1], gap) ELSE << "newline" >>)

Beginning(ws, gap, n) == FlattenSeq([i \in 1..n |-> Piece(ws, gap, i)])

Layout(ws, gap) == Beginning(ws, gap, Len(ws))

TokensOf(ws) == [i \in DOMAIN ws |-> ws[i].token]

(* A function's name is one that has its bracket.                          *)
Sensible(ws) ==
  \A i \in DOMAIN ws : ws[i].token.type = "FUNC" => i < Len(ws) /\ MustTouch(ws[i], ws[i + 1])

Sentences == {s \in [1..3 -> Pieces] : Sensible(s)}

Layouts ==
  {File(Layout(ws, gap), {TokensOf(ws)}, {}) : ws \in Sentences, gap \in Gaps}

(* These texts are laid out as the theorem TextsAreReadAsWritten of module *)
(* FrontendProofs presupposes.                                             *)
ASSUME TextsAreLaidOut ==
  \A ws \in Sentences, gap \in Gaps :
    LET at == [i \in DOMAIN ws |-> Len(Beginning(ws, gap, i - 1)) + 1]
    IN  LaidOut(Layout(ws, gap), TokensOf(ws), at, [i \in DOMAIN ws |-> at[i] + Len(ws[i].text)])

WordText(w) ==
  CASE w = "cmd" -> << "x", "=", "1", ";" >>
    [] w = "if" -> << "agar", "(", "x", ")" >>
    [] w = "ret" -> << "kirebir", "space", "1", ";" >>
    [] w = "main" -> << "rais", "newline" >>
    [] w = "decl" -> << "belderu", "space", "x", "(", "x", ")" >>
    [] w = "decl()" -> << "belderu", "space", "x", "(", ")" >>
    [] w = "call()" -> << "x", "x", "(", ")", ";" >>
    [] OTHER -> << w >>

Skeletons ==
  {File(FlattenSeq([i \in DOMAIN ws |-> WordText(ws[i])]), {}, {ws}) :
     ws \in UNION {[1..n -> {"{", "}", "cmd", "ret", "if", "main", "decl"}] : n \in 0..4}
              \cup UNION {[1..n -> {"{", "}", "cmd"}] : n \in 5..7}
              \cup UNION {[1..n -> {"{", "}", "cmd", "if", "main", "decl()", "call()"}] : n \in 1..4}
              \cup {<< head, "{", head, "{", "cmd" >> \o rest :
                       head \in {"if", "main", "decl"}, rest \in [1..4 -> {"}", "cmd"}]}}

Anything ==
  {File(text, {}, {}) :
     text \in UNION {[1..n -> {"x", "1", ".", "^", "#", "newline", "{", "rais"}] : n \in 0..4}}

MCFiles == Layouts \cup Skeletons \cup Anything

MCLocales ==
  { [radix |-> ".", decodes |-> Symbols], [radix |-> ",", decodes |-> Symbols],
    [radix |-> ".", decodes |-> Symbols \ Wide] }
===============================================================================
