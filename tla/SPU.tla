--------------------------------- MODULE SPU ---------------------------------
(***************************************************************************)
(* CPU/CPU/SPU: process() running a binary on the virtual machine.  One    *)
(* action per DEF_CMD of cmd_definitions.h; an instruction is one step.    *)
(*                                                                         *)
(* The carriage counts chunks of 8 bytes: every instruction moves it by a  *)
(* multiple of 8 bytes.  The two stacks follow module AbstractStack, which *)
(* CPU/Stack implements: their error codes are ignored by process(), so a  *)
(* refused pop is a pop of 0 and a refused push is lost.                   *)
(*                                                                         *)
(* Reading or writing outside the byte code, the registers or the RAM is   *)
(* undefined: the machine is then in phase "wild" and its further steps    *)
(* are not described.  Failing reallocs are not, either.                   *)
(***************************************************************************)
EXTENDS Bytecode

CONSTANTS Binaries,    \* the byte codes execute() is given
          Entered,     \* numbers: what the user types, and the results of
                       \* div and sqrt, whose arithmetic is not modelled
          Poison,      \* DATA_POIZON
          RegsAmount,  \* regs_amount of the config file
          RamSize,     \* RAM_size of the config file
          MaxDepth,    \* bound: numbers on the user stack, open calls, outputs
          MaxNumber    \* bound: no arithmetic result is larger

ASSUME SPUConstants ==
  /\ Binaries \subseteq Seq(ChunkType)
  /\ Entered \subseteq Int
  /\ Poison \in Int
  /\ RegsAmount \in Nat /\ RamSize \in Nat
  /\ MaxDepth \in Nat /\ MaxNumber \in Nat

VARIABLES bin,       \* the byte code
          phase,     \* ready, failed, running, halted, invalid, ended, wild
          carriage,  \* byte_code_carriage / 8
          user,      \* vm.user_stack
          ret,       \* vm.ret_stack
          regs,      \* vm.registers
          ram,       \* vm.rand_access_mem.user_RAM
          out        \* the numbers written to execution_result.txt

vars == <<bin, phase, carriage, user, ret, regs, ram, out>>

Registers == 0..(RegsAmount - 1)
Addresses == 0..(RamSize - 1)

StackType == [elems : Seq(Int), jammed : BOOLEAN]

EmptyStack == [elems |-> << >>, jammed |-> FALSE]

-------------------------------------------------------------------------------
(* Faulty variant: a jammed stack still takes numbers.                     *)
PushedAnyway(stk, v) ==
  [elems |-> Append(stk.elems, v), jammed |-> stk.jammed \/ v = Poison]

(* Pushing the poison jams the stack: from then on it refuses every call.  *)
Pushed(stk, v) ==
  IF stk.jammed THEN stk
  ELSE [elems |-> Append(stk.elems, v), jammed |-> (v = Poison)]

Refuses(stk) == stk.jammed \/ stk.elems = << >>

Top(stk) == IF Refuses(stk) THEN 0 ELSE stk.elems[Len(stk.elems)]

Popped(stk) ==
  IF Refuses(stk) THEN stk
  ELSE [stk EXCEPT !.elems = SubSeq(stk.elems, 1, Len(stk.elems) - 1)]

(* The operands of a two-operand command: B was pushed last.               *)
ValueB == Top(user)
ValueA == Top(Popped(user))
WithoutOperands == Popped(Popped(user))

(* cmp_double on whole numbers.                                            *)
CmpDouble(x, y) == IF x = y THEN 0 ELSE IF x > y THEN 1 ELSE -1

(* Faulty variant: the argument is taken as a signed number.               *)
SignedTarget(arg) == arg

(* UPDATE_BYTE_CODE_CARRIAGE: an unsigned argument; the poison of an       *)
(* unresolved jump lies behind the end of any byte code.                   *)
Target(arg) == IF arg = POISON_JMP_POS THEN Len(bin) ELSE arg

(* Faulty variant: a call that returns to itself.                          *)
ReturnToCall(c) == c

(* call stores the address behind itself.                                  *)
ReturnAddress(c) == c + 1

Current == bin[carriage + 1]

At(cmd) ==
  /\ phase = "running"
  /\ carriage < Len(bin)
  /\ Current.cmd = cmd

(* Faulty variant: the carriage is not moved.                              *)
CarriageNotMoved(n) == carriage' = carriage

MoveCarriage(n) == carriage' = carriage + n

GoWild == phase' = "wild" /\ UNCHANGED <<bin, carriage, user, ret, regs, ram, out>>

PushUser(stk, v) ==
  /\ Len(stk.elems) < MaxDepth
  /\ user' = Pushed(stk, v)

(* The RAM cell a command names, by a literal or through a register.       *)
RegisterGiven == Current.arg \in Registers

AddressGiven ==
  IF Current.mode = "RAM_IMM" THEN Current.arg ELSE regs[Current.arg]

AddressInside ==
  /\ Current.mode = "RAM_REG" => RegisterGiven
  /\ AddressGiven \in Addresses
-------------------------------------------------------------------------------
Init ==
  /\ bin \in Binaries
  /\ phase = "ready"
  /\ carriage = 0
  /\ user = EmptyStack
  /\ ret = EmptyStack
  /\ regs = [r \in Registers |-> 0]
  /\ ram = [x \in Addresses |-> 0]
  /\ out = << >>

(* VM_ctor and the reading of the byte code; each can fail, and process()  *)
(* then returns the error without running anything.                        *)
Start ==
  /\ phase = "ready"
  /\ phase' \in {"running", "failed"}
  /\ UNCHANGED <<bin, carriage, user, ret, regs, ram, out>>

PushLiteral ==
  /\ At("PUSH") /\ Current.mode = "IMM"
  /\ IF carriage + 1 < Len(bin)
     THEN /\ PushUser(user, bin[carriage + 2].arg)
          /\ MoveCarriage(2)
          /\ UNCHANGED <<bin, phase, ret, regs, ram, out>>
     ELSE GoWild

PushRegister ==
  /\ At("PUSH") /\ Current.mode = "REG"
  /\ IF RegisterGiven
     THEN /\ PushUser(user, regs[Current.arg])
          /\ MoveCarriage(1)
          /\ UNCHANGED <<bin, phase, ret, regs, ram, out>>
     ELSE GoWild

PushRam ==
  /\ At("PUSH") /\ Current.mode \in {"RAM_IMM", "RAM_REG"}
  /\ IF AddressInside
     THEN /\ PushUser(user, ram[AddressGiven])
          /\ MoveCarriage(1)
          /\ UNCHANGED <<bin, phase, ret, regs, ram, out>>
     ELSE GoWild

PushInvalid ==
  /\ At("PUSH") /\ Current.mode = "RAM"
  /\ phase' = "invalid"
  /\ UNCHANGED <<bin, carriage, user, ret, regs, ram, out>>

Push == PushLiteral \/ PushRegister \/ PushRam \/ PushInvalid

PopRegister ==
  /\ At("POP") /\ Current.mode = "REG"
  /\ IF RegisterGiven
     THEN /\ regs' = [regs EXCEPT ![Current.arg] = Top(user)]
          /\ user' = Popped(user)
          /\ MoveCarriage(1)
          /\ UNCHANGED <<bin, phase, ret, ram, out>>
     ELSE GoWild

PopRam ==
  /\ At("POP") /\ Current.mode \in {"RAM_IMM", "RAM_REG"}
  /\ IF AddressInside
     THEN /\ ram' = [ram EXCEPT ![AddressGiven] = Top(user)]
          /\ user' = Popped(user)
          /\ MoveCarriage(1)
          /\ UNCHANGED <<bin, phase, ret, regs, out>>
     ELSE GoWild

Pop == PopRegister \/ PopRam

(* A push or pop of a mode that names no operand only moves on.            *)
NoOperand ==
  /\ \/ At("PUSH") /\ Current.mode = "NONE"
     \/ At("POP") /\ Current.mode \in {"NONE", "IMM", "RAM"}
  /\ MoveCarriage(1)
  /\ UNCHANGED <<bin, phase, user, ret, regs, ram, out>>

In ==
  /\ At("IN")
  /\ \E v \in Entered : PushUser(user, v)
  /\ MoveCarriage(1)
  /\ UNCHANGED <<bin, phase, ret, regs, ram, out>>

(* A result within the bound replaces the two operands.                    *)
Compute(cmd, results) ==
  /\ At(cmd)
  /\ \E v \in results :
       /\ v \in -MaxNumber..MaxNumber
       /\ PushUser(WithoutOperands, v)
  /\ MoveCarriage(1)
  /\ UNCHANGED <<bin, phase, ret, regs, ram, out>>

Add == Compute("ADD", {ValueA + ValueB})
Sub == Compute("SUB", {ValueA - ValueB})
Mul == Compute("MUL", {ValueA * ValueB})
Div == Compute("DIV", Entered)

Sqrt ==
  /\ At("SQRT")
  /\ \E v \in Entered : PushUser(Popped(user), v)
  /\ MoveCarriage(1)
  /\ UNCHANGED <<bin, phase, ret, regs, ram, out>>

Out ==
  /\ At("OUT")
  /\ Len(out) < MaxDepth
  /\ out' = Append(out, Top(user))
  /\ user' = Popped(user)
  /\ MoveCarriage(1)
  /\ UNCHANGED <<bin, phase, ret, regs, ram>>

(* On an empty return stack the popped address is 0: the program restarts. *)
Ret ==
  /\ At("RET")
  /\ carriage' = Top(ret)
  /\ ret' = Popped(ret)
  /\ UNCHANGED <<bin, phase, user, regs, ram, out>>

Jmp ==
  /\ At("JMP")
  /\ carriage' = Target(Current.arg)
  /\ UNCHANGED <<bin, phase, user, ret, regs, ram, out>>

JumpWhen(cmd, outcomes) ==
  /\ At(cmd)
  /\ carriage' = IF CmpDouble(ValueA, ValueB) \in outcomes
                 THEN Target(Current.arg) ELSE carriage + 1
  /\ user' = WithoutOperands
  /\ UNCHANGED <<bin, phase, ret, regs, ram, out>>

Jae == JumpWhen("JAE", {0, 1})
Ja  == JumpWhen("JA",  {1})
Jbe == JumpWhen("JBE", {-1, 0})
Jb  == JumpWhen("JB",  {-1})
Je  == JumpWhen("JE",  {0})
Jne == JumpWhen("JNE", {-1, 1})

(* Addresses are never the poison, so the return stack is never jammed.    *)
Call ==
  /\ At("CALL")
  /\ Len(ret.elems) < MaxDepth
  /\ ret' = [ret EXCEPT !.elems = Append(@, ReturnAddress(carriage))]
  /\ carriage' = Target(Current.arg)
  /\ UNCHANGED <<bin, phase, user, regs, ram, out>>

(* process() returns from inside its loop: neither the byte code nor the   *)
(* machine is released.                                                    *)
Hlt ==
  /\ At("HLT")
  /\ phase' = "halted"
  /\ UNCHANGED <<bin, carriage, user, ret, regs, ram, out>>

(* The driver shows RAM from head up to end - 1; here head is 0 and end is *)
(* the argument of the data chunk.                                         *)
Draw ==
  /\ At("DRAW")
  /\ IF carriage + 1 < Len(bin) /\ bin[carriage + 2].arg <= RamSize
     THEN /\ MoveCarriage(2)
          /\ UNCHANGED <<bin, phase, user, ret, regs, ram, out>>
     ELSE GoWild

(* VOID and an unknown command do nothing, moving on included.             *)
Spin ==
  /\ At("VOID") \/ At("DATA")
  /\ UNCHANGED vars

(* The loop is left, and all is released, only from behind the byte code.  *)
Finish ==
  /\ phase = "running"
  /\ carriage >= Len(bin)
  /\ phase' = "ended"
  /\ UNCHANGED <<bin, carriage, user, ret, regs, ram, out>>

Instruction ==
  \/ Push \/ Pop \/ NoOperand \/ In
  \/ Add \/ Sub \/ Mul \/ Div \/ Sqrt \/ Out
  \/ Ret \/ Jmp \/ Jae \/ Ja \/ Jbe \/ Jb \/ Je \/ Jne \/ Call
  \/ Hlt \/ Draw \/ Spin

Next == Start \/ Instruction \/ Finish

Spec == Init /\ [][Next]_vars

(* process() is one thread that keeps running its loop; a user answers the *)
(* prompt of `in' and closes the window of `draw' in the end.              *)
FairSpec == Spec /\ WF_vars(Next)
-------------------------------------------------------------------------------
(* The type invariant; the return stack is never jammed.                   *)
TypeOK ==
  /\ bin \in Binaries
  /\ phase \in {"ready", "failed", "running", "halted", "invalid", "ended", "wild"}
  /\ carriage \in Nat
  /\ user \in StackType
  /\ ret \in [elems : Seq(Nat), jammed : {FALSE}]
  /\ regs \in [Registers -> Int]
  /\ ram \in [Addresses -> Int]
  /\ out \in Seq(Int)

(* Whatever byte code runs, jumping into data or returning twice included, *)
(* every open call's return address is the chunk behind a call command of  *)
(* that byte code: no command but call pushes on the return stack and no   *)
(* return can land anywhere else, or at the start when no call is open.    *)
ReturnsBehindCalls ==
  \A i \in DOMAIN ret.elems :
    LET caller == ret.elems[i] IN
      caller \in 1..Len(bin) /\ bin[caller].cmd = "CALL"

(* From the moment the poison 666.666666 is on the user stack the program  *)
(* computes with zeros: the stack refuses every push and pop and the error *)
(* codes are ignored, so whatever is stored from then on is 0.             *)
JammedStackYieldsZeros ==
  [][user.jammed =>
       /\ user' = user
       /\ \A r \in Registers : regs'[r] \in {regs[r], 0}
       /\ \A x \in Addresses : ram'[x] \in {ram[x], 0}
       /\ out' \in {out, Append(out, 0)}]_vars

(* Byte code without jumps, calls and returns comes to an end, or to a     *)
(* VOID command, where the machine spins for ever.                         *)
StraightLine ==
  \A i \in DOMAIN bin : bin[i].cmd \notin LabelCommands \cup {"RET"}

Spinning == At("VOID") \/ At("DATA")

StraightLineStops ==
  StraightLine ~> (phase \notin {"ready", "running"} \/ Spinning)
===============================================================================
