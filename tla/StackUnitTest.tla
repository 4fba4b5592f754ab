---------------------------- MODULE StackUnitTest -----------------------------
(***************************************************************************)
(* unit_test_1 of CPU/Stack/src/stack.cpp: the calls it makes, in order,   *)
(* on the stack of module GuardedStack.                                    *)
(***************************************************************************)
EXTENDS GuardedStack

CONSTANTS number,  \* the 666 the test pushes
          zero, poison, here

VARIABLE step      \* how many calls of the test have returned

tvars == <<phase, size, capacity, cells, site, hash, alarm, reply, step>>

TestValues == {zero, number}
TestGarbage == {zero}
TestSites == {here}

Call(n, A1) == step = n /\ A1 /\ step' = n + 1

TestInit == Init /\ step = 0

TestNext ==
  \/ Call(0, Ctor(0, here))
  \/ Call(1, Push(number, here))
  \/ Call(2, Push(number, here))
  \/ Call(3, Pop(here))

TestSpec == TestInit /\ [][TestNext]_tvars

(* What unit_test_1 asserts before it destroys the stack: capacity 2, the  *)
(* number in cell 0, and "(stk->size == 0)" after two pushes and one pop.  *)
UnitTest1Passes ==
  step = 4 /\ phase = "live" =>
    /\ capacity = 2
    /\ cells[1] = number
    /\ size = 0
===============================================================================
