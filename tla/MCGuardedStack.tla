---------------------------- MODULE MCGuardedStack ----------------------------
(***************************************************************************)
(* A small stack for TLC: numbers 0 and a, the poison, two call sites, and *)
(* capacities that pass through 5, 2, 1, 0 and back to 5 as well as        *)
(* through 2 and 4.  Memory that was freed by a destroyed stack comes back *)
(* poisoned, so a fresh cell is 0 or the poison.                           *)
(***************************************************************************)
EXTENDS GuardedStack

CONSTANTS a, poison, zero, here, there

MCValues == {zero, a}
MCGarbage == {zero, poison}
MCSites == {here, there}
===============================================================================
