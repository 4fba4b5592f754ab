----------------------------- MODULE GuardedStack -----------------------------
(***************************************************************************)
(* CPU/Stack: the growable stack of doubles, built with DEBUG,             *)
(* CANARY_PROTECTION, HASH_PROTECTION and LOGGING as stack.h defines them. *)
(*                                                                         *)
(* A call first compares a digest of the header and of the data with the   *)
(* one on record and records the new one (hash_check_n_count; the answer   *)
(* is logged and otherwise ignored), then notes its call site, then runs   *)
(* stack_verifier and gives up if that reports anything.  Only a call that *)
(* gets past the verifier records the digest again at its end.             *)
(*                                                                         *)
(* Canaries can only change by a stray write of the client, which is not a *)
(* step of this module, so the four canary flags never come up.            *)
(***************************************************************************)
EXTENDS Naturals, Sequences

CONSTANTS Values,             \* numbers the client pushes, 0 included
          Poison,             \* DATA_POIZON, which the client can push too
          Zero,               \* 0.0: a calloc'ed cell, the value of a failed pop
          Garbage,            \* what a cell fresh from realloc may hold
          Sites,              \* call sites the digest tells apart
          StarterCapacities,  \* capacities the client asks stack_ctor for
          MaxCapacity         \* bound: no push grows the buffer beyond it

ASSUME StackConstants ==
  /\ Zero \in Values
  /\ Poison \notin Values
  /\ Garbage \subseteq Values \cup {Poison}
  /\ StarterCapacities \subseteq Nat
  /\ MaxCapacity \in Nat

VARIABLES phase,     \* raw, live, lost (data is NULL), broken, freed, crashed
          size,
          capacity,
          cells,     \* the capacity cells of the buffer, stale ones included
          site,      \* file_name, func_name and line of the last call
          hash,      \* the digest on record
          alarm,     \* the last hash_check_n_count reported a mismatch
          reply      \* [code |-> set of Err_ID flags, value |-> deleted_element]

vars == <<phase, size, capacity, cells, site, hash, alarm, reply>>

Element == Values \cup {Poison}

Answer(code, v) == [code |-> code, value |-> v]
ALL_GOOD == {}

stack_reformation_coeff == 2
stack_expantion_size_from_zero == 5

-------------------------------------------------------------------------------
(* stack_push grows 0 to 5 and doubles any other capacity.                 *)
Grown(cap) == IF cap = 0 THEN stack_expantion_size_from_zero
                         ELSE cap * stack_reformation_coeff

(* Faulty variants: shrinking at half full, and whenever there is room.     *)
DueToShrinkAtHalf(n, cap) == n <= cap \div stack_reformation_coeff
DueToShrinkAlways(n, cap) == n <= cap

(* stack_pop halves the capacity when the new size is at most a quarter.   *)
DueToShrink(n, cap) ==
  n <= cap \div (stack_reformation_coeff * stack_reformation_coeff)

Shrunk(cap) == cap \div stack_reformation_coeff

(* hash_count: the whole header, but of the data only `capacity' bytes, so *)
(* one cell in eight (a partly covered cell counts as covered).            *)
CoveredCells(cap) == (cap + 7) \div 8
Digest(s, n, cap, cs) ==
  [site |-> s, size |-> n, capacity |-> cap,
   data |-> SubSeq(cs, 1, CoveredCells(cap))]

HashAintRight == hash # Digest(site, size, capacity, cells)

(* stack_verifier scans all `capacity' cells, the ones above size too.     *)
Poisoned == \E i \in 1..Len(cells) : cells[i] = Poison

Flag(cond, ERROR_TYPE) == IF cond THEN {ERROR_TYPE} ELSE {}

VerifierErrors ==
  UNION {Flag(size > capacity, "SIZE_IS_GREATER"),
         Flag(phase = "lost", "DATA_NULL_PTR"),
         Flag(Poisoned, "DATA_POIZON_VALUE")}

Verified == VerifierErrors = ALL_GOOD

Faulty == phase \in {"live", "lost"} /\ ~Verified

(* Faulty variant: one cell more is allocated than the capacity says.      *)
BuffersTooLong(n) == [1..(n + 1) -> Garbage]

Buffers(n) == [1..n -> Garbage]
-------------------------------------------------------------------------------
Init ==
  /\ phase = "raw"
  /\ size = 0
  /\ capacity = 0
  /\ cells = << >>
  /\ site \in Sites
  /\ hash = Digest(site, 0, 0, << >>)
  /\ alarm = FALSE
  /\ reply = Answer(ALL_GOOD, Zero)

Ctor(starter, s) ==
  /\ phase = "raw"
  /\ phase' = "live"
  /\ size' = 0
  /\ capacity' = starter
  /\ cells' = [i \in 1..starter |-> Zero]
  /\ site' = s
  /\ hash' = Digest(s, 0, starter, cells')
  /\ reply' = Answer(ALL_GOOD, Zero)
  /\ alarm' = FALSE

(* calloc failed, or fopen of the log did: the code is returned, and the   *)
(* half-built stack crashes on its next call (NULL data or NULL log_file). *)
CtorFails(starter) ==
  /\ phase = "raw"
  /\ phase' = "broken"
  /\ \E code \in {"NOT_ENOUGH_MEM", "UNABLE_TO_OPEN_FILE"} :
        reply' = Answer({code}, Zero)
  /\ capacity' = starter
  /\ UNCHANGED <<size, cells, site, hash, alarm>>

CallOnBroken ==
  /\ phase = "broken"
  /\ phase' = "crashed"
  /\ UNCHANGED <<size, capacity, cells, site, hash, alarm, reply>>

(* The common entry of push and pop.                                       *)
Enter(s) ==
  /\ phase \in {"live", "lost"}
  /\ alarm' = HashAintRight
  /\ site' = s

(* What hash_check_n_count recorded stays on record: the digest from       *)
(* before the call site was noted.                                         *)
Refuse(s, code) ==
  /\ hash' = Digest(site, size, capacity, cells)
  /\ reply' = Answer(code, Zero)
  /\ UNCHANGED <<phase, size, capacity, cells>>

(* realloc answered NULL and the next statement goes through stk->data.    *)
NullDereference ==
  /\ phase' = "crashed"
  /\ UNCHANGED <<size, capacity, cells, hash, reply>>

(* Faulty variant: the element overwrites the top instead of following it. *)
StoredOverTop(v, s, room) ==
  /\ cells' = [room EXCEPT ![IF size = 0 THEN 1 ELSE size] = v]
  /\ size' = size + 1
  /\ hash' = Digest(s, size', capacity', cells')
  /\ reply' = Answer(ALL_GOOD, Zero)
  /\ phase' = phase

Stored(v, s, room) ==
  /\ cells' = [room EXCEPT ![size + 1] = v]
  /\ size' = size + 1
  /\ hash' = Digest(s, size', capacity', cells')
  /\ reply' = Answer(ALL_GOOD, Zero)
  /\ phase' = phase

PushInPlace(v, s) ==
  /\ Enter(s)
  /\ Verified
  /\ size < capacity
  /\ capacity' = capacity
  /\ Stored(v, s, cells)

PushGrowing(v, s) ==
  /\ Enter(s)
  /\ Verified
  /\ size >= capacity
  /\ Grown(capacity) <= MaxCapacity
  /\ \/ /\ capacity' = Grown(capacity)
        /\ \E fresh \in Buffers(Grown(capacity) - capacity) :
             Stored(v, s, cells \o fresh)
     \/ NullDereference

PushRefused(s) ==
  /\ Enter(s)
  /\ ~Verified
  /\ Refuse(s, VerifierErrors)

Push(v, s) == PushInPlace(v, s) \/ PushGrowing(v, s) \/ PushRefused(s)

(* Faulty variant: a pop that does not record the digest at its end.       *)
PoppedUnrecorded(s) ==
  /\ size' = size - 1
  /\ hash' = Digest(site, size, capacity, cells)
  /\ reply' = Answer(ALL_GOOD, cells[size])

Popped(s) ==
  /\ size' = size - 1
  /\ hash' = Digest(s, size', capacity', cells')
  /\ reply' = Answer(ALL_GOOD, cells[size])

PopInPlace(s) ==
  /\ Enter(s)
  /\ Verified
  /\ size > 0
  /\ ~DueToShrink(size - 1, capacity)
  /\ UNCHANGED <<phase, capacity, cells>>
  /\ Popped(s)

(* A realloc that fails while shrinking crashes in hash_count, unless the  *)
(* new capacity is 0: then hash_count reads nothing and the stack goes on  *)
(* with a NULL data pointer.                                               *)
PopShrinking(s) ==
  /\ Enter(s)
  /\ Verified
  /\ size > 0
  /\ DueToShrink(size - 1, capacity)
  /\ \/ /\ capacity' = Shrunk(capacity)
        /\ cells' = SubSeq(cells, 1, Shrunk(capacity))
        /\ \/ phase' = phase
           \/ phase' = "lost" /\ Shrunk(capacity) = 0
        /\ Popped(s)
     \/ Shrunk(capacity) > 0 /\ NullDereference

PopEmpty(s) ==
  /\ Enter(s)
  /\ Verified
  /\ size = 0
  /\ Refuse(s, {"SIZE_ZERO"})

PopRefused(s) ==
  /\ Enter(s)
  /\ ~Verified
  /\ Refuse(s, VerifierErrors)

Pop(s) == PopInPlace(s) \/ PopShrinking(s) \/ PopEmpty(s) \/ PopRefused(s)

Destroyed ==
  /\ phase' = "freed"
  /\ size' = 0
  /\ capacity' = 0
  /\ cells' = << >>
  /\ reply' = Answer(ALL_GOOD, Zero)
  /\ hash' = Digest(site, 0, 0, << >>)

(* Faulty variant: a destructor that does not ask the verifier.            *)
DtorUnverified == Enter(site) /\ Destroyed

(* stack_dtor does not note a call site.                                   *)
DtorDone == Enter(site) /\ Verified /\ Destroyed

DtorRefused ==
  /\ Enter(site)
  /\ ~Verified
  /\ Refuse(site, VerifierErrors)

Dtor == DtorDone \/ DtorRefused

Next ==
  \/ \E starter \in StarterCapacities :
        CtorFails(starter) \/ \E s \in Sites : Ctor(starter, s)
  \/ CallOnBroken
  \/ \E s \in Sites : (\E v \in Element : Push(v, s)) \/ Pop(s)
  \/ Dtor

Spec == Init /\ [][Next]_vars
-------------------------------------------------------------------------------
(* The type invariant: the cells are exactly the buffer of `capacity'      *)
(* cells, except in a stack whose constructor failed.                      *)
TypeOK ==
  /\ phase \in {"raw", "live", "lost", "broken", "freed", "crashed"}
  /\ size \in Nat
  /\ capacity \in Nat
  /\ cells \in Seq(Element)
  /\ phase \in {"live", "lost"} => Len(cells) = capacity
  /\ site \in Sites
  /\ alarm \in BOOLEAN
  /\ reply.value \in Element

(* SIZE_IS_GREATER never comes up: whatever sequence of grows and shrinks  *)
(* a client causes, the elements it stored fit in the buffer it has.  The  *)
(* shrinking pop must not cut live elements off.                           *)
SizeWithinCapacity ==
  phase \in {"live", "lost"} => size <= capacity

(* A pop that shrinks the buffer leaves it at least half free, so that a   *)
(* client alternating push and pop there does not reallocate on each call  *)
(* (unless it empties the stack: capacity 1 shrinks to 0 and grows back).  *)
ShrinkLeavesHalfFree ==
  [][capacity' < capacity /\ phase' = "live"
       => stack_reformation_coeff * size' <= capacity']_vars

(* Once the verifier finds fault with a stack, nothing a client can call   *)
(* changes or frees it any more: every push and pop is refused, and so is  *)
(* the destructor, whose buffer is then leaked.  One pushed 666.666666 or  *)
(* one stale cell is enough.                                               *)
FaultIsForever ==
  [][Faulty => /\ UNCHANGED <<phase, size, capacity, cells>>
               /\ reply'.code # ALL_GOOD]_vars

(* A hash alarm is only ever raised by a call that follows a call that     *)
(* failed: a call that succeeded always leaves the digest it should.  (The *)
(* alarm is then a false one: no byte was corrupted.)                      *)
AlarmOnlyAfterFailure ==
  [][alarm' => reply.code # ALL_GOOD]_vars

(* The implementation relation to AbstractStack: the contents are the      *)
(* first `size' cells, a stack is jammed when its verifier would refuse.   *)
Contents == SubSeq(cells, 1, size)

AbstractPhase == IF phase = "lost" THEN "live" ELSE phase

AbstractReply == [done |-> reply.code = ALL_GOOD, value |-> reply.value]

A == INSTANCE AbstractStack WITH phase <- AbstractPhase,
                                 contents <- Contents,
                                 jammed <- Faulty,
                                 reply <- AbstractReply

(* The stack is a last-in first-out container: no pop returns a number     *)
(* other than the last one stored and not yet popped, whatever was grown,  *)
(* shrunk, refused or left in stale cells in between.                      *)
ImplementsAbstractStack == A!ASpec
===============================================================================
