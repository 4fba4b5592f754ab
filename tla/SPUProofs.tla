------------------------------ MODULE SPUProofs ------------------------------
(***************************************************************************)
(* Theorems about the SPU, for every set of byte codes, well formed or     *)
(* not, everything a user can type, every amount of registers and RAM and  *)
(* every value of the bounds.                                              *)
(***************************************************************************)
EXTENDS SPU, SequenceLemmas, TLAPS

SInv == TypeOK /\ ReturnsBehindCalls

-------------------------------------------------------------------------------
(* What the chunk under the carriage can hold.                             *)
LEMMA ChunksAreTyped ==
  ASSUME SPUConstants, TypeOK, NEW i \in 1..Len(bin)
  PROVE  bin[i].arg \in Int /\ (bin[i].cmd \in LabelCommands => Target(bin[i].arg) \in Nat)
<1>1. bin \in Seq(ChunkType)
  BY DEF SPUConstants, TypeOK
<1>2. bin[i] \in ChunkType
  BY <1>1, ElementOfSeq
<1>3. Len(bin) \in Nat
  BY <1>1, LenProperties
<1> QED
  BY <1>2, <1>3 DEF ChunkType, Target

LEMMA CurrentIsTyped ==
  ASSUME SPUConstants, TypeOK, NEW cmd, At(cmd)
  PROVE  /\ carriage + 1 \in 1..Len(bin)
         /\ Current.arg \in Int
         /\ cmd \in LabelCommands => Target(Current.arg) \in Nat
<1>1. Len(bin) \in Nat /\ carriage \in Nat
  BY LenProperties DEF SPUConstants, TypeOK
<1>2. carriage + 1 \in 1..Len(bin)
  BY <1>1 DEF At
<1> QED
  BY <1>2, ChunksAreTyped DEF At, Current

(* What the operations of a stack of numbers in S return.                  *)
LEMMA AppendedStack ==
  ASSUME NEW stk \in StackType, NEW v \in Int
  PROVE  Pushed(stk, v) \in StackType
<1>1. Append(stk.elems, v) \in Seq(Int)
  BY AppendProperties DEF StackType
<1> QED
  BY <1>1 DEF Pushed, StackType

LEMMA PoppedStack ==
  ASSUME NEW stk \in StackType
  PROVE  Popped(stk) \in StackType /\ Top(stk) \in Int
<1>1. stk.elems \in Seq(Int)
  BY DEF StackType
<1>2. CASE Refuses(stk)
  BY <1>2 DEF Popped, Top
<1>3. CASE ~Refuses(stk)
  <2>1. stk.elems # << >>
    BY <1>3 DEF Refuses
  <2>2. /\ SubSeq(stk.elems, 1, Len(stk.elems) - 1) \in Seq(Int)
        /\ stk.elems[Len(stk.elems)] \in Int
    BY <1>1, <2>1, WithoutLast
  <2> QED
    BY <1>3, <2>2 DEF Popped, Top, StackType
<1> QED
  BY <1>2, <1>3

(* A jammed stack shows zeros and stays as it is.                          *)
LEMMA JammedStack ==
  ASSUME NEW stk, stk.jammed = TRUE
  PROVE  /\ Top(stk) = 0
         /\ Popped(stk) = stk
         /\ \A v : Pushed(stk, v) = stk
BY DEF Top, Popped, Pushed, Refuses

LEMMA OperandsAreTyped ==
  ASSUME TypeOK
  PROVE  /\ Popped(user) \in StackType /\ WithoutOperands \in StackType
         /\ ValueA \in Int /\ ValueB \in Int
<1>1. user \in StackType
  BY DEF TypeOK
<1> QED
  BY <1>1, PoppedStack DEF WithoutOperands, ValueA, ValueB
-------------------------------------------------------------------------------
LEMMA Initially ==
  ASSUME SPUConstants, Init
  PROVE  SInv
<1>1. << >> \in Seq(Int) /\ << >> \in Seq(Nat) /\ Len(<< >>) = 0
  BY EmptySeq
<1> QED
  BY <1>1 DEF Init, SInv, TypeOK, ReturnsBehindCalls, EmptyStack, StackType

(* What a step has to show; most leave the return stack alone.             *)
LEMMA TypesKept ==
  ASSUME TypeOK, bin' = bin,
         phase' \in {"ready", "failed", "running", "halted", "invalid", "ended", "wild"},
         carriage' \in Nat,
         user' \in StackType,
         ret' \in [elems : Seq(Nat), jammed : {FALSE}],
         regs' \in [Registers -> Int],
         ram' \in [Addresses -> Int],
         out' \in Seq(Int)
  PROVE  TypeOK'
BY DEF TypeOK, StackType, Registers, Addresses

LEMMA MachineStep ==
  ASSUME SInv, bin' = bin, ret' = ret,
         phase' \in {phase, "wild", "invalid", "halted", "ended"},
         carriage' \in Nat,
         user' \in StackType,
         regs' \in [Registers -> Int],
         ram' \in [Addresses -> Int],
         out' \in Seq(Int)
  PROVE  SInv'
<1>1. TypeOK'
  BY TypesKept DEF SInv, TypeOK
<1> QED
  BY <1>1 DEF SInv, ReturnsBehindCalls

LEMMA WildStep ==
  ASSUME SInv, GoWild
  PROVE  SInv'
BY MachineStep DEF SInv, TypeOK, GoWild

(* The parts of the invariant, to be cited where a step needs them.        *)
LEMMA Parts ==
  ASSUME SInv
  PROVE  /\ carriage \in Nat
         /\ user \in StackType
         /\ regs \in [Registers -> Int]
         /\ ram \in [Addresses -> Int]
         /\ out \in Seq(Int)
BY DEF SInv, TypeOK

LEMMA PushStep ==
  ASSUME SPUConstants, SInv, Push
  PROVE  SInv'
<1>1. CASE PushLiteral
  <2>1. CASE carriage + 1 < Len(bin)
    <3>1. Len(bin) \in Nat /\ carriage \in Nat
      BY LenProperties DEF SPUConstants, SInv, TypeOK
    <3>2. bin[carriage + 2].arg \in Int
      BY <2>1, <3>1, ChunksAreTyped DEF SInv
    <3>3. Pushed(user, bin[carriage + 2].arg) \in StackType
      BY <3>2, Parts, AppendedStack
    <3>4. carriage + 2 \in Nat
      BY <3>1
    <3> QED
      BY <1>1, <2>1, <3>3, <3>4, Parts, MachineStep DEF PushLiteral, PushUser, MoveCarriage
  <2>2. CASE ~(carriage + 1 < Len(bin))
    BY <1>1, <2>2, WildStep DEF PushLiteral
  <2> QED
    BY <2>1, <2>2
<1>2. CASE PushRegister
  <2>1. CASE RegisterGiven
    <3>1. Pushed(user, regs[Current.arg]) \in StackType
      BY <2>1, Parts, AppendedStack DEF RegisterGiven
    <3> QED
      BY <1>2, <2>1, <3>1, Parts, MachineStep DEF PushRegister, PushUser, MoveCarriage
  <2>2. CASE ~RegisterGiven
    BY <1>2, <2>2, WildStep DEF PushRegister
  <2> QED
    BY <2>1, <2>2
<1>3. CASE PushRam
  <2>1. CASE AddressInside
    <3>1. Pushed(user, ram[AddressGiven]) \in StackType
      BY <2>1, Parts, AppendedStack DEF AddressInside
    <3> QED
      BY <1>3, <2>1, <3>1, Parts, MachineStep DEF PushRam, PushUser, MoveCarriage
  <2>2. CASE ~AddressInside
    BY <1>3, <2>2, WildStep DEF PushRam
  <2> QED
    BY <2>1, <2>2
<1>4. CASE PushInvalid
  BY <1>4, Parts, MachineStep DEF PushInvalid
<1> QED
  BY <1>1, <1>2, <1>3, <1>4 DEF Push

LEMMA PopStep ==
  ASSUME SPUConstants, SInv, Pop
  PROVE  SInv'
<1>0. Popped(user) \in StackType /\ Top(user) \in Int
  BY Parts, PoppedStack
<1>1. CASE PopRegister
  <2>1. CASE RegisterGiven
    <3>1. [regs EXCEPT ![Current.arg] = Top(user)] \in [Registers -> Int]
      BY <1>0, Parts
    <3> QED
      BY <1>0, <1>1, <2>1, <3>1, Parts, MachineStep DEF PopRegister, MoveCarriage
  <2>2. CASE ~RegisterGiven
    BY <1>1, <2>2, WildStep DEF PopRegister
  <2> QED
    BY <2>1, <2>2
<1>2. CASE PopRam
  <2>1. CASE AddressInside
    <3>1. [ram EXCEPT ![AddressGiven] = Top(user)] \in [Addresses -> Int]
      BY <1>0, Parts
    <3> QED
      BY <1>0, <1>2, <2>1, <3>1, Parts, MachineStep DEF PopRam, MoveCarriage
  <2>2. CASE ~AddressInside
    BY <1>2, <2>2, WildStep DEF PopRam
  <2> QED
    BY <2>1, <2>2
<1> QED
  BY <1>1, <1>2 DEF Pop

(* Arithmetic, input and output.                                           *)
LEMMA ComputeStep ==
  ASSUME SPUConstants, SInv, NEW cmd, NEW results, Compute(cmd, results)
  PROVE  SInv'
<1>1. PICK v \in results : v \in -MaxNumber..MaxNumber /\ PushUser(WithoutOperands, v)
  BY DEF Compute
<1>2. v \in Int
  BY <1>1 DEF SPUConstants
<1>3. Pushed(WithoutOperands, v) \in StackType
  BY <1>2, OperandsAreTyped, AppendedStack DEF SInv
<1> QED
  BY <1>1, <1>3, Parts, MachineStep DEF Compute, PushUser, MoveCarriage

LEMMA InStep ==
  ASSUME SPUConstants, SInv, In
  PROVE  SInv'
<1>1. PICK v \in Entered : PushUser(user, v)
  BY DEF In
<1>2. Pushed(user, v) \in StackType
  BY Parts, AppendedStack DEF SPUConstants
<1> QED
  BY <1>1, <1>2, Parts, MachineStep DEF In, PushUser, MoveCarriage

LEMMA SqrtStep ==
  ASSUME SPUConstants, SInv, Sqrt
  PROVE  SInv'
<1>1. PICK v \in Entered : PushUser(Popped(user), v)
  BY DEF Sqrt
<1>2. Pushed(Popped(user), v) \in StackType
  BY Parts, PoppedStack, AppendedStack DEF SPUConstants
<1> QED
  BY <1>1, <1>2, Parts, MachineStep DEF Sqrt, PushUser, MoveCarriage

LEMMA OutStep ==
  ASSUME SPUConstants, SInv, Out
  PROVE  SInv'
<1>1. Popped(user) \in StackType /\ Top(user) \in Int
  BY Parts, PoppedStack
<1>2. Append(out, Top(user)) \in Seq(Int)
  BY <1>1, Parts, AppendProperties
<1> QED
  BY <1>1, <1>2, Parts, MachineStep DEF Out, MoveCarriage
-------------------------------------------------------------------------------
(* The commands that move the carriage elsewhere, and those that stop.     *)
LEMMA JumpWhenStep ==
  ASSUME SPUConstants, SInv, NEW cmd \in LabelCommands, NEW outcomes, JumpWhen(cmd, outcomes)
  PROVE  SInv'
<1>1. Target(Current.arg) \in Nat
  BY CurrentIsTyped DEF JumpWhen, SInv
<1>2. WithoutOperands \in StackType
  BY OperandsAreTyped DEF SInv
<1> QED
  BY <1>1, <1>2, Parts, MachineStep DEF JumpWhen

LEMMA JmpStep ==
  ASSUME SPUConstants, SInv, Jmp
  PROVE  SInv'
<1>1. Target(Current.arg) \in Nat
  BY CurrentIsTyped DEF Jmp, SInv, LabelCommands
<1> QED
  BY <1>1, Parts, MachineStep DEF Jmp

LEMMA StayStep ==
  ASSUME SPUConstants, SInv, Start \/ NoOperand \/ Hlt \/ Draw \/ Spin \/ Finish
  PROVE  SInv'
<1>1. CASE Start
  <2>1. TypeOK'
    BY <1>1, Parts, TypesKept DEF Start, SInv, TypeOK
  <2> QED
    BY <1>1, <2>1 DEF Start, SInv, ReturnsBehindCalls
<1>2. CASE NoOperand
  BY <1>2, Parts, MachineStep DEF NoOperand, MoveCarriage
<1>3. CASE Hlt
  BY <1>3, Parts, MachineStep DEF Hlt
<1>4. CASE Draw
  <2>1. CASE carriage + 1 < Len(bin) /\ bin[carriage + 2].arg <= RamSize
    BY <1>4, <2>1, Parts, MachineStep DEF Draw, MoveCarriage
  <2>2. CASE ~(carriage + 1 < Len(bin) /\ bin[carriage + 2].arg <= RamSize)
    BY <1>4, <2>2, WildStep DEF Draw
  <2> QED
    BY <2>1, <2>2
<1>5. CASE Spin
  BY <1>5, Parts, MachineStep DEF Spin, vars
<1>6. CASE Finish
  BY <1>6, Parts, MachineStep DEF Finish
<1> QED
  BY <1>1, <1>2, <1>3, <1>4, <1>5, <1>6

(* A call appends the address behind itself to the return stack.           *)
LEMMA CallStep ==
  ASSUME SPUConstants, SInv, Call
  PROVE  SInv'
<1> DEFINE elems == ret.elems
           longer == Append(elems, ReturnAddress(carriage))
<1>1. /\ carriage \in Nat
      /\ elems \in Seq(Nat)
      /\ ret \in [elems : Seq(Nat), jammed : {FALSE}]
  BY DEF SInv, TypeOK
<1>2. /\ carriage + 1 \in 1..Len(bin)
      /\ bin[carriage + 1].cmd = "CALL"
      /\ Target(Current.arg) \in Nat
  BY CurrentIsTyped DEF Call, At, Current, SInv, LabelCommands
<1>3. ReturnAddress(carriage) = carriage + 1
  BY DEF ReturnAddress
<1>4. /\ longer \in Seq(Nat)
      /\ Len(longer) = Len(elems) + 1
      /\ \A i \in 1..Len(elems) : longer[i] = elems[i]
      /\ longer[Len(elems) + 1] = carriage + 1
  BY <1>1, <1>3, AppendProperties
<1>5. /\ ret' = [ret EXCEPT !.elems = longer]
      /\ carriage' = Target(Current.arg)
      /\ UNCHANGED <<bin, phase, user, regs, ram, out>>
  BY DEF Call
<1> HIDE DEF longer
<1>6. ret' \in [elems : Seq(Nat), jammed : {FALSE}] /\ ret'.elems = longer
  BY <1>1, <1>4, <1>5
<1>7. TypeOK'
  BY <1>2, <1>5, <1>6, Parts, TypesKept DEF SInv, TypeOK
<1>8. \A i \in 1..Len(longer) : longer[i] \in 1..Len(bin) /\ bin[longer[i]].cmd = "CALL"
  <2> SUFFICES ASSUME NEW i \in 1..Len(longer)
               PROVE  longer[i] \in 1..Len(bin) /\ bin[longer[i]].cmd = "CALL"
    OBVIOUS
  <2>1. CASE i = Len(elems) + 1
    BY <1>2, <1>4, <2>1
  <2>2. CASE i # Len(elems) + 1
    <3>1. i \in 1..Len(elems) /\ i \in DOMAIN elems
      BY <1>1, <1>4, <2>2, LenProperties
    <3> QED
      BY <1>4, <3>1 DEF SInv, ReturnsBehindCalls
  <2> QED
    BY <2>1, <2>2
<1>9. DOMAIN longer = 1..Len(longer)
  BY <1>4, LenProperties
<1> QED
  BY <1>5, <1>6, <1>7, <1>8, <1>9 DEF SInv, ReturnsBehindCalls

LEMMA RetStep ==
  ASSUME SPUConstants, SInv, Ret
  PROVE  SInv'
<1>1. /\ ret.elems \in Seq(Nat)
      /\ ret \in [elems : Seq(Nat), jammed : {FALSE}]
      /\ ret.jammed = FALSE
  BY DEF SInv, TypeOK
<1>2. CASE ret.elems = << >>
  <2>1. carriage' = 0 /\ ret' = ret
    BY <1>2 DEF Ret, Top, Popped, Refuses
  <2> QED
    BY <2>1, Parts, MachineStep DEF Ret
<1>3. CASE ret.elems # << >>
  <2> DEFINE shorter == SubSeq(ret.elems, 1, Len(ret.elems) - 1)
  <2>1. /\ carriage' = ret.elems[Len(ret.elems)]
        /\ ret' = [ret EXCEPT !.elems = shorter]
        /\ UNCHANGED <<bin, phase, user, regs, ram, out>>
    BY <1>1, <1>3 DEF Ret, Top, Popped, Refuses
  <2>2. /\ shorter \in Seq(Nat)
        /\ Len(shorter) = Len(ret.elems) - 1
        /\ \A i \in 1..(Len(ret.elems) - 1) : shorter[i] = ret.elems[i]
        /\ ret.elems[Len(ret.elems)] \in Nat
    BY <1>1, <1>3, WithoutLast
  <2> HIDE DEF shorter
  <2>3. ret' \in [elems : Seq(Nat), jammed : {FALSE}] /\ ret'.elems = shorter
    BY <1>1, <2>1, <2>2
  <2>4. TypeOK'
    BY <2>1, <2>2, <2>3, Parts, TypesKept DEF SInv, TypeOK
  <2>5. \A i \in DOMAIN shorter : i \in DOMAIN ret.elems /\ shorter[i] = ret.elems[i]
    <3>1. Len(ret.elems) \in Nat /\ DOMAIN ret.elems = 1..Len(ret.elems)
      BY <1>1, LenProperties
    <3>2. DOMAIN shorter = 1..(Len(ret.elems) - 1)
      BY <2>2, LenProperties
    <3> QED
      BY <2>2, <3>1, <3>2
  <2> QED
    BY <2>1, <2>3, <2>4, <2>5 DEF SInv, ReturnsBehindCalls
<1> QED
  BY <1>2, <1>3
-------------------------------------------------------------------------------
LEMMA Stepwise ==
  ASSUME SPUConstants, SInv, [Next]_vars
  PROVE  SInv'
<1>1. CASE Push \/ Pop \/ In \/ Sqrt \/ Out
  BY <1>1, PushStep, PopStep, InStep, SqrtStep, OutStep
<1>2. CASE Add \/ Sub \/ Mul \/ Div
  BY <1>2, ComputeStep DEF Add, Sub, Mul, Div
<1>3. CASE Jae \/ Ja \/ Jbe \/ Jb \/ Je \/ Jne
  BY <1>3, JumpWhenStep DEF Jae, Ja, Jbe, Jb, Je, Jne, LabelCommands
<1>4. CASE Jmp \/ Call \/ Ret
  BY <1>4, JmpStep, CallStep, RetStep
<1>5. CASE Start \/ NoOperand \/ Hlt \/ Draw \/ Spin \/ Finish
  BY <1>5, StayStep
<1>6. CASE UNCHANGED vars
  BY <1>6, Parts, MachineStep DEF vars
<1> QED
  BY <1>1, <1>2, <1>3, <1>4, <1>5, <1>6 DEF Next, Instruction

LEMMA Invariance == Spec => []SInv
<1>1. Init => SInv
  BY Initially, SPUConstants
<1>2. SInv /\ [Next]_vars => SInv'
  BY Stepwise, SPUConstants
<1> QED
  BY <1>1, <1>2, PTL DEF Spec

(* Every step of every byte code keeps the machine's state well typed.     *)
THEOREM MachineTypeCorrect == Spec => []TypeOK
<1>1. SInv => TypeOK
  BY DEF SInv
<1> QED
  BY <1>1, Invariance, PTL

(* Whatever byte code runs, a return can only lead behind a call of it.    *)
THEOREM ReturnsAreConfined == Spec => []ReturnsBehindCalls
<1>1. SInv => ReturnsBehindCalls
  BY DEF SInv
<1> QED
  BY <1>1, Invariance, PTL
-------------------------------------------------------------------------------
(* What a jammed user stack leaves to a step.                              *)
OnlyZeros ==
  /\ user' = user
  /\ \A r \in Registers : regs'[r] \in {regs[r], 0}
  /\ \A x \in Addresses : ram'[x] \in {ram[x], 0}
  /\ out' \in {out, Append(out, 0)}

LEMMA JammedUser ==
  ASSUME TypeOK, user.jammed
  PROVE  /\ Top(user) = 0 /\ Popped(user) = user
         /\ \A v : Pushed(user, v) = user
         /\ WithoutOperands = user
<1>1. user.jammed = TRUE
  BY DEF TypeOK, StackType
<1> QED
  BY <1>1, JammedStack DEF WithoutOperands

LEMMA JammedMoves ==
  ASSUME TypeOK, user.jammed, Instruction, ~Push, ~Pop, ~Out
  PROVE  OnlyZeros
<1> USE JammedUser DEF OnlyZeros
<1>1. CASE In \/ Sqrt
  BY <1>1 DEF In, Sqrt, PushUser
<1>2. CASE Add \/ Sub \/ Mul \/ Div
  BY <1>2 DEF Add, Sub, Mul, Div, Compute, PushUser
<1>3. CASE Jae \/ Ja \/ Jbe \/ Jb \/ Je \/ Jne
  BY <1>3 DEF Jae, Ja, Jbe, Jb, Je, Jne, JumpWhen
<1>4. CASE NoOperand \/ Ret \/ Jmp \/ Call \/ Hlt
  BY <1>4 DEF NoOperand, Ret, Jmp, Call, Hlt
<1>5. CASE Draw \/ Spin
  BY <1>5 DEF Draw, Spin, GoWild, vars
<1> QED
  BY <1>1, <1>2, <1>3, <1>4, <1>5 DEF Instruction

LEMMA JammedStores ==
  ASSUME TypeOK, user.jammed, Push \/ Pop \/ Out
  PROVE  OnlyZeros
<1> USE JammedUser DEF OnlyZeros
<1>1. CASE Push
  BY <1>1 DEF Push, PushLiteral, PushRegister, PushRam, PushInvalid, PushUser, GoWild
<1>2. CASE PopRegister
  BY <1>2 DEF PopRegister, GoWild, TypeOK
<1>3. CASE PopRam
  BY <1>3 DEF PopRam, GoWild, TypeOK
<1>4. CASE Out
  BY <1>4 DEF Out
<1> QED
  BY <1>1, <1>2, <1>3, <1>4 DEF Pop

(* Once the poison is pushed, nothing but zeros is stored or written out.  *)
THEOREM JammedMachine == Spec => JammedStackYieldsZeros
<1>1. TypeOK /\ [Next]_vars => [user.jammed => OnlyZeros]_vars
  <2> SUFFICES ASSUME TypeOK, [Next]_vars, user.jammed
               PROVE  OnlyZeros \/ UNCHANGED vars
    OBVIOUS
  <2>1. CASE Instruction
    BY <2>1, JammedMoves, JammedStores
  <2>2. CASE Start \/ Finish
    BY <2>2 DEF Start, Finish, OnlyZeros
  <2> QED
    BY <2>1, <2>2 DEF Next
<1>2. [][user.jammed => OnlyZeros]_vars => JammedStackYieldsZeros
  BY DEF JammedStackYieldsZeros, OnlyZeros
<1> QED
  BY <1>1, <1>2, MachineTypeCorrect, PTL DEF Spec
===============================================================================
