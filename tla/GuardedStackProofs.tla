--------------------------- MODULE GuardedStackProofs ---------------------------
(***************************************************************************)
(* Theorems about the stack of CPU/Stack, for every set of numbers, every  *)
(* starter capacity, every content of uninitialised memory and every bound.*)
(***************************************************************************)
EXTENDS GuardedStack, SequenceLemmas, TLAPS

(* A call that succeeded leaves the digest of what it left on record.      *)
RecordedUnlessFailed ==
  phase \in {"live", "lost"} /\ reply.code = ALL_GOOD
     => hash = Digest(site, size, capacity, cells)

(* Before the first call there is no buffer and no alarm.                  *)
Unused ==
  /\ phase = "raw" => capacity = 0
  /\ phase \in {"raw", "broken"} => size = 0 /\ cells = << >> /\ alarm = FALSE

IInv ==
  /\ TypeOK
  /\ SizeWithinCapacity
  /\ RecordedUnlessFailed
  /\ Unused

-------------------------------------------------------------------------------
(* What the arithmetic of growing and shrinking guarantees.                *)
LEMMA GrownMakesRoom ==
  ASSUME NEW cap \in Nat
  PROVE  Grown(cap) \in Nat /\ Grown(cap) > cap
BY DEF Grown, stack_reformation_coeff, stack_expantion_size_from_zero

LEMMA ShrunkKeepsHalf ==
  ASSUME NEW n \in Nat, NEW cap \in Nat, DueToShrink(n, cap)
  PROVE  /\ Shrunk(cap) \in Nat
         /\ Shrunk(cap) <= cap
         /\ stack_reformation_coeff * n <= Shrunk(cap)
BY DEF DueToShrink, Shrunk, stack_reformation_coeff

(* A verified stack has its buffer, and nothing in it is the poison.       *)
LEMMA VerifiedStack ==
  ASSUME TypeOK, phase \in {"live", "lost"}, Verified
  PROVE  /\ phase = "live"
         /\ size <= capacity
         /\ Len(cells) = capacity
         /\ \A i \in 1..Len(cells) : cells[i] # Poison
<1>1. ~(size > capacity) /\ ~(phase = "lost") /\ ~Poisoned
  BY DEF Verified, VerifierErrors, Flag, ALL_GOOD
<1> QED
  BY <1>1 DEF TypeOK, Poisoned

LEMMA FreshBuffer ==
  ASSUME NEW n \in Nat, NEW fresh \in Buffers(n)
  PROVE  fresh \in Seq(Element) /\ Len(fresh) = n
BY StackConstants DEF Buffers, Element

LEMMA InitEstablishes == Init => IInv
<1> SUFFICES ASSUME Init PROVE IInv
  OBVIOUS
<1>1. cells \in Seq(Element) /\ reply.value \in Element
  BY StackConstants, EmptySeq DEF Init, Answer, Element
<1> QED
  BY <1>1 DEF Init, IInv, TypeOK, SizeWithinCapacity, RecordedUnlessFailed, Unused

(* Every way a push stores its element: in the room it has, or in the      *)
(* grown buffer.                                                           *)
LEMMA StoredKeeps ==
  ASSUME IInv, phase = "live", NEW v \in Element, NEW s \in Sites,
         NEW room \in Seq(Element), Len(room) = capacity', capacity' \in Nat,
         size < Len(room), site' = s, alarm' \in BOOLEAN,
         Stored(v, s, room)
  PROVE  IInv'
<1>1. size \in Nat
  BY DEF IInv, TypeOK
<1>2. cells' \in Seq(Element) /\ Len(cells') = Len(room)
  BY <1>1, StoredIsAppended DEF Stored
<1>3. reply'.value \in Element
  BY StackConstants DEF Stored, Answer, Element
<1>4. phase' = "live" /\ size' = size + 1 /\ hash' = Digest(site', size', capacity', cells')
  BY DEF Stored
<1>5. TypeOK'
  BY <1>1, <1>2, <1>3, <1>4 DEF TypeOK
<1>6. SizeWithinCapacity' /\ RecordedUnlessFailed' /\ Unused'
  BY <1>1, <1>4 DEF SizeWithinCapacity, RecordedUnlessFailed, Unused
<1> QED
  BY <1>5, <1>6 DEF IInv

LEMMA Entered ==
  ASSUME NEW s \in Sites, Enter(s)
  PROVE  phase \in {"live", "lost"} /\ site' = s /\ alarm' \in BOOLEAN
<1>1. HashAintRight \in BOOLEAN
  BY DEF HashAintRight
<1> QED
  BY <1>1 DEF Enter

LEMMA RefusalKeeps ==
  ASSUME IInv, NEW s \in Sites, Enter(s), NEW code, Refuse(s, code),
         code # ALL_GOOD
  PROVE  IInv'
BY Entered, StackConstants
   DEF IInv, TypeOK, SizeWithinCapacity, RecordedUnlessFailed, Unused,
       Refuse, Answer, Element

LEMMA CrashKeeps ==
  ASSUME IInv, NEW s \in Sites, Enter(s), NullDereference
  PROVE  IInv'
BY Entered
   DEF IInv, TypeOK, SizeWithinCapacity, RecordedUnlessFailed, Unused,
       NullDereference

LEMMA PushKeeps ==
  ASSUME IInv, NEW v \in Element, NEW s \in Sites, Push(v, s)
  PROVE  IInv'
<1>1. CASE PushInPlace(v, s)
  <2>1. phase = "live" /\ Len(cells) = capacity
    BY <1>1, VerifiedStack DEF PushInPlace, Enter, IInv
  <2> QED
    BY <1>1, <2>1, Entered, StoredKeeps DEF PushInPlace, IInv, TypeOK
<1>2. CASE PushGrowing(v, s)
  <2>1. phase = "live" /\ Len(cells) = capacity /\ size <= capacity
    BY <1>2, VerifiedStack DEF PushGrowing, Enter, IInv
  <2>2. CASE NullDereference
    BY <1>2, <2>2, CrashKeeps DEF PushGrowing
  <2>3. CASE /\ capacity' = Grown(capacity)
             /\ \E fresh \in Buffers(Grown(capacity) - capacity) :
                  Stored(v, s, cells \o fresh)
    <3>1. PICK fresh \in Buffers(Grown(capacity) - capacity) :
            Stored(v, s, cells \o fresh)
      BY <2>3
    <3>2. /\ capacity \in Nat /\ size \in Nat /\ cells \in Seq(Element)
          /\ Grown(capacity) \in Nat
          /\ Grown(capacity) > capacity
      BY GrownMakesRoom DEF IInv, TypeOK
    <3>3. fresh \in Seq(Element) /\ Len(fresh) = Grown(capacity) - capacity
      BY <3>1, <3>2, FreshBuffer
    <3>4. cells \o fresh \in Seq(Element) /\ Len(cells \o fresh) = Grown(capacity)
      <4>1. /\ cells \o fresh \in Seq(Element)
            /\ Len(cells \o fresh) = Len(cells) + Len(fresh)
        BY <3>2, <3>3, ConcatProperties
      <4> QED
        BY <2>1, <3>2, <3>3, <4>1
    <3>5. size < Len(cells \o fresh) /\ Len(cells \o fresh) = capacity'
      BY <2>1, <2>3, <3>2, <3>4
    <3>6. site' = s /\ alarm' \in BOOLEAN
      BY <1>2, Entered DEF PushGrowing
    <3> QED
      BY <2>1, <2>3, <3>1, <3>2, <3>4, <3>5, <3>6, StoredKeeps
  <2> QED
    BY <1>2, <2>2, <2>3 DEF PushGrowing
<1>3. CASE PushRefused(s)
  BY <1>3, RefusalKeeps DEF PushRefused, Verified
<1> QED
  BY <1>1, <1>2, <1>3 DEF Push

LEMMA PopKeeps ==
  ASSUME IInv, NEW s \in Sites, Pop(s)
  PROVE  IInv'
<1>1. CASE PopInPlace(s)
  <2>1. /\ phase = "live" /\ Len(cells) = capacity /\ size <= capacity
        /\ size \in Nat /\ capacity \in Nat /\ cells \in Seq(Element)
    BY <1>1, VerifiedStack DEF PopInPlace, Enter, IInv, TypeOK
  <2>2. cells[size] \in Element
    BY <1>1, <2>1, ElementOfSeq DEF PopInPlace
  <2> QED
    BY <1>1, <2>1, <2>2, Entered
       DEF PopInPlace, Popped, Answer, IInv, TypeOK, SizeWithinCapacity,
           RecordedUnlessFailed, Unused
<1>2. CASE PopShrinking(s)
  <2>1. /\ phase = "live" /\ Len(cells) = capacity /\ size <= capacity
        /\ size \in Nat /\ capacity \in Nat /\ cells \in Seq(Element)
    BY <1>2, VerifiedStack DEF PopShrinking, Enter, IInv, TypeOK
  <2>2. cells[size] \in Element
    BY <1>2, <2>1, ElementOfSeq DEF PopShrinking
  <2>3. CASE NullDereference
    BY <1>2, <2>3, CrashKeeps DEF PopShrinking
  <2>4. CASE /\ capacity' = Shrunk(capacity)
             /\ cells' = SubSeq(cells, 1, Shrunk(capacity))
             /\ \/ phase' = phase
                \/ phase' = "lost" /\ Shrunk(capacity) = 0
             /\ Popped(s)
    <3>1. /\ Shrunk(capacity) \in Nat
          /\ Shrunk(capacity) <= capacity
          /\ size - 1 \in Nat
          /\ size - 1 <= Shrunk(capacity)
      <4>1. size - 1 \in Nat /\ DueToShrink(size - 1, capacity)
        BY <1>2, <2>1 DEF PopShrinking
      <4> QED
        BY <2>1, <4>1, ShrunkKeepsHalf DEF stack_reformation_coeff
    <3>2. cells' \in Seq(Element) /\ Len(cells') = capacity'
      BY <2>1, <2>4, <3>1, PrefixOfSeq
    <3>3. phase' \in {"live", "lost"} /\ site' = s /\ alarm' \in BOOLEAN
      BY <1>2, <2>1, <2>4, Entered DEF PopShrinking
    <3>4. /\ size' = size - 1
          /\ hash' = Digest(s, size', capacity', cells')
          /\ reply'.value \in Element
      BY <2>2, <2>4 DEF Popped, Answer
    <3> QED
      BY <2>4, <3>1, <3>2, <3>3, <3>4
         DEF IInv, TypeOK, SizeWithinCapacity, RecordedUnlessFailed, Unused
  <2> QED
    BY <1>2, <2>3, <2>4 DEF PopShrinking
<1>3. CASE PopEmpty(s)
  BY <1>3, RefusalKeeps DEF PopEmpty, ALL_GOOD
<1>4. CASE PopRefused(s)
  BY <1>4, RefusalKeeps DEF PopRefused, Verified
<1> QED
  BY <1>1, <1>2, <1>3, <1>4 DEF Pop

LEMMA CtorKeeps ==
  ASSUME IInv, NEW starter \in StarterCapacities, NEW s \in Sites,
         Ctor(starter, s)
  PROVE  IInv'
<1>1. starter \in Nat /\ Zero \in Element
  BY StackConstants DEF Element
<1>2. [i \in 1..starter |-> Zero] \in Seq(Element)
  BY <1>1, IsASeq
<1>3. Len([i \in 1..starter |-> Zero]) = starter
  BY <1>1
<1>4. cells' \in Seq(Element) /\ Len(cells') = starter
  BY <1>2, <1>3 DEF Ctor
<1>5. /\ phase' = "live" /\ size' = 0 /\ capacity' = starter /\ site' = s
      /\ alarm' = FALSE /\ reply'.value = Zero
      /\ hash' = Digest(site', size', capacity', cells')
  BY DEF Ctor, Answer
<1>6. TypeOK'
  BY <1>1, <1>4, <1>5 DEF TypeOK
<1>7. SizeWithinCapacity' /\ RecordedUnlessFailed' /\ Unused'
  BY <1>1, <1>5 DEF SizeWithinCapacity, RecordedUnlessFailed, Unused
<1> QED
  BY <1>6, <1>7 DEF IInv

LEMMA CtorFailsKeeps ==
  ASSUME IInv, NEW starter \in StarterCapacities, CtorFails(starter)
  PROVE  IInv'
BY StackConstants
   DEF CtorFails, Answer, Element, IInv, TypeOK, SizeWithinCapacity,
       RecordedUnlessFailed, Unused

LEMMA DtorKeeps ==
  ASSUME IInv, Dtor
  PROVE  IInv'
<1>0. site \in Sites
  BY DEF IInv, TypeOK
<1>1. CASE DtorDone
  <2>1. cells' \in Seq(Element) /\ reply'.value \in Element
    BY <1>1, EmptySeq, StackConstants DEF DtorDone, Destroyed, Answer, Element
  <2> QED
    BY <1>0, <1>1, <2>1, Entered
       DEF DtorDone, Destroyed, IInv, TypeOK, SizeWithinCapacity,
           RecordedUnlessFailed, Unused
<1>2. CASE DtorRefused
  BY <1>0, <1>2, RefusalKeeps DEF DtorRefused, Verified
<1> QED
  BY <1>1, <1>2 DEF Dtor

LEMMA StepPreserves == IInv /\ [Next]_vars => IInv'
<1> SUFFICES ASSUME IInv, [Next]_vars PROVE IInv'
  OBVIOUS
<1>1. CASE UNCHANGED vars
  BY <1>1 DEF vars, IInv, TypeOK, SizeWithinCapacity, RecordedUnlessFailed, Unused
<1>2. CASE CallOnBroken
  BY <1>2 DEF CallOnBroken, IInv, TypeOK, SizeWithinCapacity,
              RecordedUnlessFailed, Unused
<1> QED
  BY <1>1, <1>2, CtorKeeps, CtorFailsKeeps, PushKeeps, PopKeeps, DtorKeeps DEF Next

(* Every reachable state of the stack is well typed.                       *)
THEOREM TypeCorrect == Spec => []TypeOK
<1>1. IInv => TypeOK
  BY DEF IInv
<1> QED
  BY <1>1, InitEstablishes, StepPreserves, PTL DEF Spec

(* The elements stored always fit in the buffer there is, however often    *)
(* stack_push grew it and stack_pop shrank it.                             *)
THEOREM SizeNeverExceedsCapacity == Spec => []SizeWithinCapacity
<1>1. IInv => SizeWithinCapacity
  BY DEF IInv
<1> QED
  BY <1>1, InitEstablishes, StepPreserves, PTL DEF Spec

(* A pop that shrinks the buffer leaves it at least half free.             *)
THEOREM ShrinkingKeepsRoom == Spec => ShrinkLeavesHalfFree
<1>1. ASSUME IInv, [Next]_vars, capacity' < capacity, phase' = "live"
      PROVE  stack_reformation_coeff * size' <= capacity'
  <2>0. /\ size \in Nat /\ capacity \in Nat /\ ~(phase = "raw")
        /\ \E s \in Sites : \/ \E v \in Element : Push(v, s)
                            \/ Pop(s)
                            \/ Dtor
    <3>1. size \in Nat /\ capacity \in Nat /\ (phase = "raw" => capacity = 0)
      BY <1>1 DEF IInv, TypeOK, Unused
    <3>2. ~(phase = "raw")
      <4>1. SUFFICES ASSUME phase = "raw" PROVE FALSE
        OBVIOUS
      <4>2. capacity' \in Nat
        BY <1>1, StepPreserves DEF IInv, TypeOK
      <4> QED
        BY <1>1, <3>1, <4>1, <4>2
    <3>3. ~(UNCHANGED vars) /\ ~CallOnBroken
      BY <1>1, <3>1 DEF vars, CallOnBroken
    <3> QED
      BY <1>1, <3>1, <3>2, <3>3 DEF Next, Ctor, CtorFails, Dtor, IInv, TypeOK
  <2>1. PICK s \in Sites : \/ \E v \in Element : Push(v, s)
                           \/ Pop(s)
                           \/ Dtor
    BY <2>0
  <2>2. ASSUME NEW v \in Element, Push(v, s) PROVE FALSE
    BY <1>1, <2>0, <2>2, GrownMakesRoom
       DEF Push, PushInPlace, PushGrowing, PushRefused, Refuse, NullDereference
  <2>3. ~Dtor
    BY <1>1, <2>0 DEF Dtor, DtorDone, DtorRefused, Destroyed, Refuse
  <2>4. PopShrinking(s)
    BY <1>1, <2>0, <2>1, <2>2, <2>3 DEF Pop, PopInPlace, PopEmpty, PopRefused, Refuse
  <2>5. capacity' = Shrunk(capacity) /\ size' = size - 1
    BY <1>1, <2>4 DEF PopShrinking, Popped, NullDereference
  <2> QED
    BY <2>0, <2>4, <2>5, ShrunkKeepsHalf DEF PopShrinking
<1>2. IInv /\ [Next]_vars
        => [capacity' < capacity /\ phase' = "live"
              => stack_reformation_coeff * size' <= capacity']_vars
  BY <1>1
<1> QED
  BY <1>2, InitEstablishes, StepPreserves, PTL DEF Spec, ShrinkLeavesHalfFree

(* Once the verifier finds fault with a stack, every later call is refused *)
(* and leaves it as it is, the destructor included.                        *)
THEOREM FaultStays == Spec => FaultIsForever
<1>1. ASSUME Next, Faulty
      PROVE  UNCHANGED <<phase, size, capacity, cells>> /\ reply'.code # ALL_GOOD
  <2>1. ~Verified /\ phase \in {"live", "lost"} /\ VerifierErrors # ALL_GOOD
    BY <1>1 DEF Faulty, Verified
  <2>2. \/ \E s \in Sites : PushRefused(s) \/ PopRefused(s)
        \/ DtorRefused
    BY <1>1, <2>1
       DEF Next, Ctor, CtorFails, CallOnBroken, Push, PushInPlace, PushGrowing,
           Pop, PopInPlace, PopShrinking, PopEmpty, Dtor, DtorDone
  <2>3. \E s \in Sites \cup {site} : Refuse(s, VerifierErrors)
    BY <2>2 DEF PushRefused, PopRefused, DtorRefused
  <2> QED
    BY <2>1, <2>3 DEF Refuse, Answer
<1>2. [Next]_vars
        => [Faulty => /\ UNCHANGED <<phase, size, capacity, cells>>
                      /\ reply'.code # ALL_GOOD]_vars
  BY <1>1
<1> QED
  BY <1>2, PTL DEF Spec, FaultIsForever

(* A hash alarm only follows a call that failed.                           *)
THEOREM AlarmsAreConfined == Spec => AlarmOnlyAfterFailure
<1>1. ASSUME IInv, Next, alarm', reply.code = ALL_GOOD
      PROVE  FALSE
  <2>1. ~(phase \in {"raw", "broken"})
    BY <1>1 DEF IInv, Unused, Next, Ctor, CtorFails, CallOnBroken, Push, Pop, Dtor,
       PushInPlace, PushGrowing, PushRefused, PopInPlace, PopShrinking, PopEmpty,
       PopRefused, DtorDone, DtorRefused, Enter
  <2>2. \E s \in Sites \cup {site} : Enter(s)
    BY <1>1, <2>1
       DEF Next, Ctor, CtorFails, CallOnBroken, Push, PushInPlace, PushGrowing,
           PushRefused, Pop, PopInPlace, PopShrinking, PopEmpty, PopRefused,
           Dtor, DtorDone, DtorRefused
  <2> QED
    BY <1>1, <2>2 DEF Enter, HashAintRight, IInv, RecordedUnlessFailed
<1>2. IInv /\ [Next]_vars => [alarm' => reply.code # ALL_GOOD]_vars
  BY <1>1
<1> QED
  BY <1>2, InitEstablishes, StepPreserves, PTL DEF Spec, AlarmOnlyAfterFailure

-------------------------------------------------------------------------------
(* The implementation of AbstractStack, one lemma per concrete outcome.    *)

LEMMA FaultyIsBoolean == Faulty \in BOOLEAN /\ Faulty' \in BOOLEAN
BY DEF Faulty

(* A live stack is faulty exactly when some cell holds the poison.         *)
LEMMA LiveFaulty ==
  phase = "live" /\ TypeOK /\ size <= capacity
    => (Faulty <=> Poisoned)
BY DEF Faulty, Verified, VerifierErrors, Flag, ALL_GOOD, TypeOK

LEMMA RefusalIsRefuse ==
  ASSUME NEW s, Enter(s), NEW code, code # ALL_GOOD, Refuse(s, code),
         Faulty \/ Contents = << >>
  PROVE  A!Refuse
<1>1. UNCHANGED <<phase, size, capacity, cells>> /\ reply' = Answer(code, Zero)
  BY DEF Refuse
<1>2. Faulty' = Faulty /\ Contents' = Contents /\ AbstractPhase' = AbstractPhase
  BY <1>1 DEF Faulty, Verified, VerifierErrors, Poisoned, Contents, AbstractPhase
<1>3. AbstractReply' = A!Refused
  BY <1>1 DEF AbstractReply, Answer, A!Refused
<1>4. AbstractPhase = "live"
  BY DEF Enter, AbstractPhase
<1> QED
  BY <1>2, <1>3, <1>4 DEF A!Refuse

LEMMA CrashIsCrash ==
  ASSUME phase \in {"live", "broken"}, phase' = "crashed",
         UNCHANGED <<size, cells, reply>>, ~Faulty
  PROVE  A!Crash
BY FaultyIsBoolean DEF A!Crash, AbstractPhase, Contents, Faulty, AbstractReply

LEMMA StoredIsStore ==
  ASSUME IInv, IInv', phase = "live", ~Faulty, NEW v \in Element, NEW s,
         NEW room \in Seq(Element), size < Len(room),
         SubSeq(room, 1, size) = SubSeq(cells, 1, size),
         Stored(v, s, room)
  PROVE  A!Store(v)
<1>1. /\ size \in Nat
      /\ cells' = [room EXCEPT ![size + 1] = v]
      /\ size' = size + 1
      /\ phase' = "live"
      /\ reply' = Answer(ALL_GOOD, Zero)
  BY DEF Stored, IInv, TypeOK
<1>2. /\ Len(cells') = Len(room)
      /\ cells'[size + 1] = v
      /\ SubSeq(cells', 1, size + 1) = Append(SubSeq(room, 1, size), v)
  BY <1>1, StoredIsAppended
<1>3. Contents' = Append(Contents, v)
  BY <1>1, <1>2 DEF Contents
<1>4. v = Poison => Faulty'
  <2>1. (phase = "live" /\ TypeOK /\ size <= capacity)'
    BY <1>1 DEF IInv, SizeWithinCapacity
  <2>2. Faulty' <=> Poisoned'
    BY <2>1, LiveFaulty, PTL
  <2>3. size + 1 \in 1..Len(cells')
    BY <1>1, <1>2 DEF IInv, TypeOK
  <2> QED
    BY <1>2, <2>2, <2>3 DEF Poisoned
<1>5. AbstractReply' = A!Done(Zero)
  BY <1>1 DEF AbstractReply, Answer, A!Done
<1> QED
  BY <1>1, <1>3, <1>4, <1>5, FaultyIsBoolean DEF A!Store, AbstractPhase

LEMMA PushIsAbstract ==
  ASSUME IInv, IInv', NEW v \in Element, NEW s \in Sites, Push(v, s)
  PROVE  A!Store(v) \/ A!Refuse \/ A!Crash
<1>0. /\ size \in Nat /\ capacity \in Nat /\ cells \in Seq(Element)
      /\ phase \in {"live", "lost"}
  BY DEF IInv, TypeOK, Push, PushInPlace, PushGrowing, PushRefused, Enter
<1>1. CASE PushRefused(s)
  <2>1. Faulty /\ VerifierErrors # ALL_GOOD
    BY <1>0, <1>1 DEF PushRefused, Faulty, Verified
  <2> QED
    BY <1>1, <2>1, RefusalIsRefuse DEF PushRefused
<1>2. CASE PushInPlace(v, s)
  <2>1. phase = "live" /\ Len(cells) = capacity /\ ~Faulty
    BY <1>0, <1>2, VerifiedStack DEF PushInPlace, IInv, Faulty
  <2> QED
    BY <1>0, <1>2, <2>1, StoredIsStore DEF PushInPlace
<1>3. CASE PushGrowing(v, s)
  <2>1. phase = "live" /\ Len(cells) = capacity /\ size <= capacity /\ ~Faulty
    BY <1>0, <1>3, VerifiedStack DEF PushGrowing, IInv, Faulty
  <2>2. CASE NullDereference
    BY <2>1, <2>2, CrashIsCrash DEF NullDereference
  <2>3. CASE \E fresh \in Buffers(Grown(capacity) - capacity) :
               Stored(v, s, cells \o fresh)
    <3>1. PICK fresh \in Buffers(Grown(capacity) - capacity) :
            Stored(v, s, cells \o fresh)
      BY <2>3
    <3>2. Grown(capacity) \in Nat /\ Grown(capacity) > capacity
      BY <1>0, GrownMakesRoom
    <3>3. fresh \in Seq(Element) /\ Len(fresh) = Grown(capacity) - capacity
      BY <1>0, <3>1, <3>2, FreshBuffer
    <3>4. /\ cells \o fresh \in Seq(Element)
          /\ Len(cells \o fresh) = Len(cells) + Len(fresh)
          /\ \A i \in 1 .. Len(cells) + Len(fresh) :
               (cells \o fresh)[i] = IF i <= Len(cells) THEN cells[i]
                                     ELSE fresh[i - Len(cells)]
      BY <1>0, <3>3, ConcatProperties
    <3> DEFINE room == cells \o fresh
    <3>5. size < Len(room) /\ \A i \in 1..size : room[i] = cells[i]
      BY <1>0, <2>1, <3>2, <3>3, <3>4
    <3>6. SubSeq(room, 1, size) = SubSeq(cells, 1, size)
      BY <1>0, <2>1, <3>4, <3>5, PrefixesAgree
    <3> QED
      BY <2>1, <3>1, <3>4, <3>5, <3>6, StoredIsStore
  <2> QED
    BY <1>3, <2>2, <2>3 DEF PushGrowing
<1> QED
  BY <1>1, <1>2, <1>3 DEF Push

(* A pop that keeps the first size - 1 cells is a Take, in a buffer that   *)
(* is jammed only if it was lost.                                          *)
LEMMA PoppedIsTake ==
  ASSUME IInv, IInv', phase = "live", ~Faulty, size > 0, NEW s \in Sites,
         Popped(s), phase' \in {"live", "lost"},
         phase' = "lost" => capacity' = 0,
         Len(cells') <= Len(cells),
         \A i \in 1..Len(cells') : cells'[i] = cells[i]
  PROVE  A!Take
<1>1. /\ size \in Nat /\ size' = size - 1 /\ size' \in Nat
      /\ size <= Len(cells) /\ size' <= Len(cells')
      /\ cells \in Seq(Element) /\ cells' \in Seq(Element)
      /\ Len(cells) \in Nat /\ Len(cells') \in Nat
      /\ Len(cells') = capacity'
  BY LenProperties DEF Popped, IInv, TypeOK, SizeWithinCapacity
<1>2. /\ Contents \in Seq(Element)
      /\ Len(Contents) = size
      /\ \A i \in 1..size : Contents[i] = cells[i]
  BY <1>1, PrefixOfSeq DEF Contents
<1>3. SubSeq(Contents, 1, size - 1) = SubSeq(cells', 1, size - 1)
  <2>1. \A i \in 1..(size - 1) : Contents[i] = cells'[i]
    BY <1>1, <1>2
  <2> QED
    BY <1>1, <1>2, <2>1, PrefixesAgree
<1>4. Contents' = SubSeq(Contents, 1, Len(Contents) - 1)
  BY <1>1, <1>2, <1>3 DEF Contents
<1>5. Contents # << >> /\ Contents[Len(Contents)] = cells[size]
  BY <1>1, <1>2, EmptySeq
<1>6. AbstractReply' = A!Done(Contents[Len(Contents)])
  BY <1>5 DEF Popped, AbstractReply, Answer, A!Done
<1>7. Faulty' => Contents' = << >>
  <2>1. CASE phase' = "lost"
    <3>1. size' = 0
      BY <1>1, <2>1 DEF IInv, SizeWithinCapacity
    <3> QED
      BY <1>1, <3>1, SubSeqEmpty DEF Contents
  <2>2. CASE phase' = "live"
    <3>1. ~Poisoned
      BY LiveFaulty DEF IInv, SizeWithinCapacity
    <3>2. (phase = "live" /\ TypeOK /\ size <= capacity)'
      BY <2>2 DEF IInv, SizeWithinCapacity
    <3>3. Faulty' <=> Poisoned'
      BY <3>2, LiveFaulty, PTL
    <3> QED
      BY <1>1, <3>1, <3>3 DEF Poisoned
  <2> QED
    BY <2>1, <2>2
<1>8. AbstractPhase = "live" /\ AbstractPhase' = "live"
  BY DEF AbstractPhase
<1> QED
  BY <1>4, <1>5, <1>6, <1>7, <1>8, FaultyIsBoolean DEF A!Take

LEMMA PopIsAbstract ==
  ASSUME IInv, IInv', NEW s \in Sites, Pop(s)
  PROVE  A!Take \/ A!Refuse \/ A!Crash
<1>0. /\ size \in Nat /\ capacity \in Nat /\ cells \in Seq(Element)
      /\ phase \in {"live", "lost"}
  BY DEF IInv, TypeOK, Pop, PopInPlace, PopShrinking, PopEmpty, PopRefused, Enter
<1>1. CASE PopRefused(s)
  <2>1. Faulty /\ VerifierErrors # ALL_GOOD
    BY <1>0, <1>1 DEF PopRefused, Faulty, Verified
  <2> QED
    BY <1>1, <2>1, RefusalIsRefuse DEF PopRefused
<1>2. CASE PopEmpty(s)
  <2>1. Contents = << >>
    BY <1>2, SubSeqEmpty DEF PopEmpty, Contents
  <2> QED
    BY <1>2, <2>1, RefusalIsRefuse DEF PopEmpty, ALL_GOOD
<1>3. CASE PopInPlace(s)
  <2>1. phase = "live" /\ ~Faulty
    BY <1>0, <1>3, VerifiedStack DEF PopInPlace, IInv, Faulty
  <2> QED
    BY <1>0, <1>3, <2>1, PoppedIsTake, LenProperties DEF PopInPlace
<1>4. CASE PopShrinking(s)
  <2>1. phase = "live" /\ Len(cells) = capacity /\ ~Faulty /\ size > 0
    BY <1>0, <1>4, VerifiedStack DEF PopShrinking, IInv, Faulty
  <2>2. CASE NullDereference
    BY <2>1, <2>2, CrashIsCrash DEF NullDereference
  <2>3. CASE /\ capacity' = Shrunk(capacity)
             /\ cells' = SubSeq(cells, 1, Shrunk(capacity))
             /\ \/ phase' = phase
                \/ phase' = "lost" /\ Shrunk(capacity) = 0
             /\ Popped(s)
    <3>1. Shrunk(capacity) \in Nat /\ Shrunk(capacity) <= capacity
      <4>1. size - 1 \in Nat /\ DueToShrink(size - 1, capacity)
        BY <1>0, <1>4, <2>1 DEF PopShrinking
      <4> QED
        BY <1>0, <4>1, ShrunkKeepsHalf
    <3>2. /\ Len(cells') = Shrunk(capacity)
          /\ \A i \in 1..Shrunk(capacity) : cells'[i] = cells[i]
      BY <1>0, <2>1, <2>3, <3>1, PrefixOfSeq
    <3> QED
      BY <2>1, <2>3, <3>1, <3>2, PoppedIsTake
  <2> QED
    BY <1>4, <2>2, <2>3 DEF PopShrinking
<1> QED
  BY <1>1, <1>2, <1>3, <1>4 DEF Pop

LEMMA CtorIsBuild ==
  ASSUME IInv, NEW starter \in StarterCapacities, NEW s \in Sites,
         Ctor(starter, s)
  PROVE  A!Build
<1>1. size = 0 /\ size' = 0 /\ phase = "raw" /\ phase' = "live"
  BY DEF Ctor, IInv, Unused
<1>2. Contents = << >> /\ Contents' = << >>
  BY <1>1, SubSeqEmpty DEF Contents
<1>3. ~Faulty /\ ~Faulty'
  <2>1. starter \in Nat /\ Zero # Poison
    BY StackConstants
  <2>2. ~Poisoned'
    BY <2>1 DEF Ctor, Poisoned
  <2>3. ~(size' > capacity')
    BY <1>1, <2>1 DEF Ctor
  <2> QED
    BY <1>1, <2>2, <2>3 DEF Faulty, Verified, VerifierErrors, Flag, ALL_GOOD
<1>4. AbstractReply' = A!Done(Zero)
  BY DEF Ctor, AbstractReply, Answer, A!Done
<1> QED
  BY <1>1, <1>2, <1>3, <1>4, FaultyIsBoolean DEF A!Build, AbstractPhase

LEMMA CtorFailsIsBuild ==
  ASSUME NEW starter \in StarterCapacities, CtorFails(starter)
  PROVE  A!Build
<1>1. phase = "raw" /\ phase' = "broken" /\ UNCHANGED <<size, cells>>
  BY DEF CtorFails
<1>2. PICK code : reply' = Answer({code}, Zero)
  BY DEF CtorFails
<1>3. {code} # ALL_GOOD
  BY DEF ALL_GOOD
<1>4. AbstractReply' = A!Refused
  BY <1>2, <1>3 DEF AbstractReply, Answer, A!Refused
<1> QED
  BY <1>1, <1>4, FaultyIsBoolean DEF A!Build, AbstractPhase, Contents, Faulty

LEMMA DtorIsAbstract ==
  ASSUME IInv, Dtor
  PROVE  A!Release \/ A!Refuse
<1>1. CASE DtorDone
  <2>1. phase = "live" /\ ~Faulty
    BY <1>1, VerifiedStack DEF DtorDone, Enter, IInv, Faulty
  <2>2. Contents' = << >>
    BY <1>1, SubSeqEmpty DEF DtorDone, Destroyed, Contents
  <2>3. ~Faulty' /\ phase' = "freed"
    BY <1>1 DEF DtorDone, Destroyed, Faulty
  <2>4. AbstractReply' = A!Done(Zero)
    BY <1>1 DEF DtorDone, Destroyed, AbstractReply, Answer, A!Done
  <2> QED
    BY <2>1, <2>2, <2>3, <2>4, FaultyIsBoolean DEF A!Release, AbstractPhase
<1>2. CASE DtorRefused
  <2>1. Faulty /\ VerifierErrors # ALL_GOOD
    BY <1>2 DEF DtorRefused, Faulty, Verified, Enter
  <2> QED
    BY <1>2, <2>1, RefusalIsRefuse DEF DtorRefused
<1> QED
  BY <1>1, <1>2 DEF Dtor

LEMMA InitIsAbstract == Init => A!AInit
<1> SUFFICES ASSUME Init PROVE A!AInit
  OBVIOUS
<1>1. Contents = << >>
  BY SubSeqEmpty DEF Init, Contents
<1>2. ~Faulty /\ AbstractPhase = "raw"
  BY DEF Init, Faulty, AbstractPhase
<1>3. AbstractReply = A!Done(Zero)
  BY DEF Init, AbstractReply, Answer, A!Done
<1> QED
  BY <1>1, <1>2, <1>3, FaultyIsBoolean DEF A!AInit

LEMMA StepIsAbstract ==
  IInv /\ IInv' /\ [Next]_vars => [A!ANext]_(A!avars)
<1> SUFFICES ASSUME IInv, IInv', [Next]_vars
             PROVE  A!ANext \/ UNCHANGED A!avars
  OBVIOUS
<1>1. CASE UNCHANGED vars
  BY <1>1 DEF vars, A!avars, AbstractPhase, Contents, Faulty, Verified,
              VerifierErrors, Poisoned, AbstractReply
<1>2. CASE CallOnBroken
  <2>1. A!Crash
    BY <1>2, CrashIsCrash DEF CallOnBroken, Faulty
  <2> QED
    BY <2>1 DEF A!ANext
<1>3. ASSUME NEW starter \in StarterCapacities,
             CtorFails(starter) \/ \E s \in Sites : Ctor(starter, s)
      PROVE  A!ANext
  BY <1>3, CtorIsBuild, CtorFailsIsBuild DEF A!ANext
<1>4. ASSUME NEW s \in Sites, NEW v \in Element, Push(v, s)
      PROVE  A!ANext
  <2>1. A!Store(v) \/ A!Refuse \/ A!Crash
    BY <1>4, PushIsAbstract
  <2>2. A!Element = Element
    BY DEF A!Element, Element
  <2> QED
    BY <2>1, <2>2 DEF A!ANext
<1>5. ASSUME NEW s \in Sites, Pop(s)
      PROVE  A!ANext
  BY <1>5, PopIsAbstract DEF A!ANext
<1>6. CASE Dtor
  BY <1>6, DtorIsAbstract DEF A!ANext
<1> QED
  BY <1>1, <1>2, <1>3, <1>4, <1>5, <1>6 DEF Next

(* The guarded stack implements the last-in first-out container of         *)
(* AbstractStack.                                                          *)
THEOREM Refinement == Spec => ImplementsAbstractStack
BY InitEstablishes, StepPreserves, InitIsAbstract, StepIsAbstract, PTL
   DEF Spec, ImplementsAbstractStack, A!ASpec
===============================================================================
