---------------------------- MODULE AbstractStack ----------------------------
(***************************************************************************)
(* What CPU/Stack promises its client: a last-in first-out container that  *)
(* answers a call either by doing it or by refusing it, and that can       *)
(* become permanently jammed.  A jammed stack keeps its contents and       *)
(* refuses every later call, its own destruction included.                 *)
(***************************************************************************)
EXTENDS Naturals, Sequences

CONSTANTS Values,   \* the numbers a program pushes, 0 included
          Poison,   \* the number DATA_POIZON, which a program can also push
          Zero      \* what a refused pop hands back

Element == Values \cup {Poison}

VARIABLES phase,     \* raw, live, broken, freed or crashed
          contents,  \* the numbers stored, bottom first
          jammed,    \* every call is refused from here on
          reply      \* what the last call answered

avars == <<phase, contents, jammed, reply>>

(***************************************************************************)
(* A reply is [done |-> whether the call was carried out, value |-> v].    *)
(***************************************************************************)
Done(v) == [done |-> TRUE,  value |-> v]
Refused == [done |-> FALSE, value |-> Zero]

AInit ==
  /\ phase = "raw"
  /\ contents = << >>
  /\ jammed = FALSE
  /\ reply = Done(Zero)

(* A constructor that ran out of memory or could not open its log leaves a *)
(* stack whose next call crashes.                                          *)
Build ==
  /\ phase = "raw"
  /\ \/ phase' = "live"   /\ reply' = Done(Zero)
     \/ phase' = "broken" /\ reply' = Refused
  /\ UNCHANGED <<contents, jammed>>

(* Poison jams the stack it is pushed on; so may the uninitialised memory  *)
(* a growing buffer takes in.                                              *)
Store(v) ==
  /\ phase = "live"
  /\ ~jammed
  /\ contents' = Append(contents, v)
  /\ jammed' \in {b \in BOOLEAN : v = Poison => b}
  /\ reply' = Done(Zero)
  /\ phase' = phase

(* Only the pop of the last number can lose the buffer and jam the stack.  *)
Take ==
  /\ phase = "live"
  /\ ~jammed
  /\ contents # << >>
  /\ contents' = SubSeq(contents, 1, Len(contents) - 1)
  /\ reply' = Done(contents[Len(contents)])
  /\ jammed' \in {b \in BOOLEAN : b => contents' = << >>}
  /\ phase' = phase

Refuse ==
  /\ phase = "live"
  /\ jammed \/ contents = << >>
  /\ reply' = Refused
  /\ UNCHANGED <<phase, contents, jammed>>

Release ==
  /\ phase = "live"
  /\ ~jammed
  /\ phase' = "freed"
  /\ contents' = << >>
  /\ reply' = Done(Zero)
  /\ jammed' = jammed

(* Memory that runs out while the buffer is resized, and any call on a     *)
(* broken stack, end the process.                                          *)
Crash ==
  /\ phase \in {"live", "broken"}
  /\ phase' = "crashed"
  /\ UNCHANGED <<contents, jammed, reply>>

ANext ==
  \/ Build
  \/ \E v \in Element : Store(v)
  \/ Take
  \/ Refuse
  \/ Release
  \/ Crash

ASpec == AInit /\ [][ANext]_avars
==============================================================================
