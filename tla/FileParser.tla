------------------------------ MODULE FileParser ------------------------------
(***************************************************************************)
(* File_parser: a text is counted line by line, and then pointers to its   *)
(* lines are put into an array of as many as were counted.  A text is a    *)
(* sequence of symbols; what the symbols are is left open but for newline. *)
(* It is not empty: the backend writes at least the jump to main.          *)
(***************************************************************************)
EXTENDS Naturals, Sequences, FiniteSets

CONSTANT Newline

(* The newlines, which ptr_arranger turns into the zeros that end strings. *)
Newlines(buf) == {i \in 1..Len(buf) : buf[i] = Newline}

count_file_lines(buf) == Cardinality(Newlines(buf))

(* Faulty variant: the end of the text is taken for a line, too.           *)
BeginsOrEnds(buf, i) == i = 1 \/ buf[i - 1] = Newline \/ i = Len(buf)

(* Where ptr_arranger sets a pointer: at the start of the text and behind  *)
(* each newline that does not end it.                                      *)
BeginsLine(buf, i) == i = 1 \/ buf[i - 1] = Newline

LineStarts(buf) == {i \in 1..Len(buf) : BeginsLine(buf, i)}

(* The array has room for the pointers that are written to it.             *)
PointersFit(buf) == Cardinality(LineStarts(buf)) <= count_file_lines(buf)

(* The pointers, in the order in which they are written.                   *)
ptr_arranger(buf) ==
  LET upTo[i \in 0..Len(buf)] ==
        IF i = 0 THEN << >>
        ELSE upTo[i - 1] \o (IF BeginsLine(buf, i) THEN << i >> ELSE << >>)
  IN  upTo[Len(buf)]
===============================================================================
